---------------------------- MODULE Spec2Model ----------------------------
(***************************************************************************)
(* A model of jira-mcp (src/index.js): the Figma retry loop                *)
(* figmaFetchWithRetry, the design export fetchFigmaDesign and the ticket  *)
(* aggregation getTicket.  Every action is one resumption of an async      *)
(* function: the code that runs from the completion of one await to the    *)
(* next await (or to the return).                                          *)
(***************************************************************************)
EXTENDS Integers, Sequences, FiniteSets, TLC

VARIABLES
    \* the design backend, as this scenario lets it answer
    remote,       \* the responses it may give to an API request, and the
                  \* bodies it may give to a nodes request
    \* figmaFetchWithRetry
    pcR,          \* "idle", "request", "sleep", "return", "threw"
    rMaxRetries,  \* its maxRetries argument
    rMaxWaitSec,  \* its maxWaitSec argument
    attempts,     \* its local counter
    rTrace,       \* what it did so far: requests, responses and sleeps, in order
    rResult,      \* what it returned
    \* the process and its disk
    figmaConfig,  \* TRUE when ~/.config/figma-mcp/config.json was loaded
    exportsDir,   \* TRUE when figmaExportsDir exists
    exportFiles,  \* the file names present in figmaExportsDir
    \* fetchFigmaDesign
    pcF,          \* "idle", "fileInfo", "nodeInfo", "imagesBatch", "childDownload",
                  \* "imagesWhole", "wholeDownload", "return", "threw"
    fUrl,         \* its argument
    fParsed,      \* parsed: fileKey and nodeId
    fResult,      \* result, and at the end the value returned
    fDoc,         \* doc, the node's document
    fExportable,  \* exportableChildren
    fChildIds,    \* childIds
    fImages,      \* imgData.images: the ids that have an image URL
    fIdx,         \* the position of the for loop over childIds
    fCalls,       \* the remote calls it made, in order
    fWrites,      \* the files it wrote, in order
    \* the ticket backend and getTicket
    jira,         \* the issue the backend holds under each key
    attachFiles,  \* the files present under attachmentDir, as <<issueKey, filename>>
    tk,           \* getTicket: its position, arguments and locals (see TicketIdleState)
    \* the other functions and tool handlers
    fcall,        \* a call of a synchronous function: its name, argument and result
    up,           \* the jira_update_ticket handler: its position, arguments and locals
    tr,           \* the jira_transition handler, and the workflow and status of its issue
    hd,           \* the CallTool request handler around the tools
    mn            \* userCache and the runs of parseInlineFormatting that use it

retryVars == <<pcR, rMaxRetries, rMaxWaitSec, attempts, rTrace, rResult>>

diskVars == <<figmaConfig, exportsDir, exportFiles>>

figmaVars == <<pcF, fUrl, fParsed, fResult, fDoc, fExportable, fChildIds, fImages,
               fIdx, fCalls, fWrites>>

ticketVars == <<jira, attachFiles, tk>>

toolVars == <<fcall, up, tr, hd, mn>>

vars == <<remote, retryVars, diskVars, figmaVars, ticketVars, toolVars>>

\* no synchronous function is being called
NoCall == [f |-> "none", arg |-> <<>>, done |-> FALSE, res |-> <<>>]

\* the jira_update_ticket handler is not running
UpdateIdleState ==
    [pc |-> "idle",            \* "idle", "summary", "description", "remove", "rest",
                               \* "put", "return"
     args |-> <<>>,            \* the arguments passed, a record
     issue |-> <<>>,           \* the summary and description the backend holds
     fields |-> <<>>,          \* the fields object: its <<key, value>> pairs in the
                               \* order the keys were set
     calls |-> <<>>,           \* the requests sent, in order
     answer |-> <<>>]          \* the tool result

\* the jira_transition handler is not running
TransitionIdleState ==
    [pc |-> "idle",            \* "idle", "list", "byId", "look", "direct", "step",
                               \* "last", "return"
     args |-> <<>>,            \* transitionId and targetStatus ("" when omitted)
     workflow |-> <<>>,        \* the transitions the backend offers in each status
     status |-> "",            \* the status of the issue at the backend
     attempt |-> 0,            \* the loop counter
     chosen |-> <<>>,          \* directMatch or inProgress
     transitions |-> <<>>,     \* the names pushed so far
     calls |-> <<>>,           \* the requests sent, in order
     answer |-> <<>>]          \* the tool result

\* no tool call is being handled
HandlerIdleState ==
    [pc |-> "idle",            \* "idle", "try", "serving", "catch", "returned", "propagated"
     name |-> "",              \* request.params.name
     hasArgs |-> FALSE,        \* request.params.arguments is defined
     error |-> "",             \* the message of the error thrown
     response |-> [isError |-> FALSE, text |-> ""]]  \* the response returned

\* an empty userCache and no run of parseInlineFormatting
MentionIdleState ==
    [cache |-> <<>>,           \* userCache: the result kept for each lower-case query
     runs |-> <<>>]            \* the runs of parseInlineFormatting, one per tool call

ToolIdle ==
    /\ fcall = NoCall
    /\ up = UpdateIdleState
    /\ tr = TransitionIdleState
    /\ hd = HandlerIdleState
    /\ mn = MentionIdleState

---------------------------------------------------------------------------
(* Bounds of the inputs *)

\* the largest maxRetries a caller passes
MaxRetriesArg == 3

\* the largest number of children of a design node
MaxChildren == 2

---------------------------------------------------------------------------
(* HTTP responses of the design backend *)

DefaultMaxRetries == 3
DefaultMaxWaitSec == 30
DefaultRetryAfterSec == 60
SecondsPerHour == 3600
MsPerSecond == 1000

\* a retry-after header: absent, not a number, or a number of seconds
NoHeader == [kind |-> "absent", n |-> 0]
TextHeader == [kind |-> "text", n |-> 0]
NumHeader(d) == [kind |-> "num", n |-> d]

\* the answers of the design backend: a status other than 429, or 429 with any
\* retry-after header
Responses ==
    {[status |-> s, retryAfter |-> NoHeader] : s \in {200, 204, 403, 404, 500}}
        \cup {[status |-> 429, retryAfter |-> h] :
                 h \in {NoHeader, TextHeader}
                          \cup {NumHeader(d) : d \in {0, 5, 30, 3600, 3601, 5400, 7200}}}

\* response.ok of node-fetch
IsOk(status) == status >= 200 /\ status <= 299

\* the test of line 400: the only status that is retried
IsRetryableBroken(status) == status >= 400
IsRetryable(status) == status = 429

\* Number(response.headers.get("retry-after")) || 60: an absent header gives 0
\* and a text gives NaN, both falsy, and so does the number 0
RetryAfterSec(h) == IF h.kind = "num" /\ h.n # 0 THEN h.n ELSE DefaultRetryAfterSec

\* retryAfterSec > maxWaitSec || attempts++ >= maxRetries, with the value of
\* attempts before the increment
GiveUpOffByOne(sec, att, maxRetries, maxWaitSec) ==
    sec > maxWaitSec \/ att > maxRetries
GiveUpEarly(sec, att, maxRetries, maxWaitSec) ==
    sec > maxWaitSec \/ att + 1 >= maxRetries
GiveUpNoWaitCap(sec, att, maxRetries, maxWaitSec) ==
    att >= maxRetries
GiveUp(sec, att, maxRetries, maxWaitSec) ==
    sec > maxWaitSec \/ att >= maxRetries

\* attempts++ runs only when the left operand of || is false
AttemptsAfter(sec, att, maxWaitSec) ==
    IF sec > maxWaitSec THEN att ELSE att + 1

\* Math.round(a / b) for a >= 0, b > 0
RoundDiv(a, b) == (2 * a + b) \div (2 * b)

\* the waitTime string of lines 405-408, as its number and its unit
WaitTimeSecondsOnly(sec) == [n |-> sec, unit |-> "seconds"]
WaitTime(sec) ==
    IF sec > SecondsPerHour
    THEN [n |-> RoundDiv(sec, SecondsPerHour), unit |-> "hours (monthly limit reached)"]
    ELSE [n |-> sec, unit |-> "seconds"]

NoWaitTime == [n |-> 0, unit |-> "none"]
NoResult == [rateLimited |-> FALSE, status |-> 0, retryAfter |-> NoWaitTime]
ResponseResult(r) == [rateLimited |-> FALSE, status |-> r.status, retryAfter |-> NoWaitTime]
RateLimitedResult(sec) == [rateLimited |-> TRUE, status |-> 0, retryAfter |-> WaitTime(sec)]

\* sleep(retryAfterSec * 1000)
SleepMs(sec) == sec * MsPerSecond

ReqEvent == <<"req">>
RespEvent(r) == <<"resp", r.status, r.retryAfter>>
SleepEvent(ms) == <<"sleep", ms>>

---------------------------------------------------------------------------
(* figmaFetchWithRetry *)

\* the call: attempts = 0 and the first fetch is issued
RetryEnter(maxRetries, maxWaitSec) ==
    /\ pcR' = "request"
    /\ rMaxRetries' = maxRetries
    /\ rMaxWaitSec' = maxWaitSec
    /\ attempts' = 0
    /\ rTrace' = <<ReqEvent>>
    /\ rResult' = NoResult

\* the awaited fetch resolves with response r: lines 396-416
RetryOnResponse(r) ==
    LET sec == RetryAfterSec(r.retryAfter) IN
    /\ rTrace' = Append(rTrace, RespEvent(r))
    /\ UNCHANGED <<rMaxRetries, rMaxWaitSec>>
    /\ IF IsOk(r.status)
       THEN /\ pcR' = "return"
            /\ rResult' = ResponseResult(r)
            /\ UNCHANGED attempts
       ELSE IF IsRetryable(r.status)
       THEN IF GiveUp(sec, attempts, rMaxRetries, rMaxWaitSec)
            THEN /\ pcR' = "return"
                 /\ rResult' = RateLimitedResult(sec)
                 /\ attempts' = AttemptsAfter(sec, attempts, rMaxWaitSec)
            ELSE /\ pcR' = "sleep"
                 /\ attempts' = AttemptsAfter(sec, attempts, rMaxWaitSec)
                 /\ UNCHANGED rResult
       ELSE /\ pcR' = "return"
            /\ rResult' = ResponseResult(r)
            /\ UNCHANGED attempts

RetryRespond ==
    /\ pcR = "request"
    /\ \E r \in remote.responses : RetryOnResponse(r)
    /\ UNCHANGED <<remote, diskVars, figmaVars, ticketVars, toolVars>>

\* the awaited fetch rejects (a transport error): the exception leaves the function
RetryTransportError ==
    /\ pcR = "request"
    /\ pcR' = "threw"
    /\ rTrace' = Append(rTrace, <<"error">>)
    /\ UNCHANGED <<rMaxRetries, rMaxWaitSec, attempts, rResult>>
    /\ UNCHANGED <<remote, diskVars, figmaVars, ticketVars, toolVars>>

\* the timer of sleep(retryAfterSec * 1000) fires, `continue`, and the fetch is
\* issued again: lines 412-413, 391
RetryWake ==
    /\ pcR = "sleep"
    /\ LET last == rTrace[Len(rTrace)] IN
       rTrace' = rTrace \o <<SleepEvent(SleepMs(RetryAfterSec(last[3]))), ReqEvent>>
    /\ pcR' = "request"
    /\ UNCHANGED <<rMaxRetries, rMaxWaitSec, attempts, rResult>>
    /\ UNCHANGED <<remote, diskVars, figmaVars, ticketVars, toolVars>>

\* the caller takes the returned value (or the exception): the call is over
RetryLeave ==
    /\ pcR' = "idle"
    /\ attempts' = 0
    /\ rTrace' = <<>>
    /\ rResult' = NoResult
    /\ UNCHANGED <<rMaxRetries, rMaxWaitSec>>

RetryIdle ==
    /\ pcR = "idle"
    /\ rMaxRetries = DefaultMaxRetries
    /\ rMaxWaitSec = DefaultMaxWaitSec
    /\ attempts = 0
    /\ rTrace = <<>>
    /\ rResult = NoResult

---------------------------------------------------------------------------
(* Strings are sequences of one-character strings *)

Digits == <<"0", "1", "2", "3", "4", "5", "6", "7", "8", "9">>

\* the characters the class [a-zA-Z0-9-] of lines 528 and 559 accepts
AlnumDash ==
    {"0", "1", "2", "3", "4", "5", "6", "7", "8", "9", "-",
     "a", "b", "c", "d", "e", "f", "g", "h", "i", "j", "k", "l", "m",
     "n", "o", "p", "q", "r", "s", "t", "u", "v", "w", "x", "y", "z",
     "A", "B", "C", "D", "E", "F", "G", "H", "I", "J", "K", "L", "M",
     "N", "O", "P", "Q", "R", "S", "T", "U", "V", "W", "X", "Y", "Z"}

\* str.replace(/-/g, ":")
HyphensToColons(str) == [i \in 1..Len(str) |-> IF str[i] = "-" THEN ":" ELSE str[i]]

\* id.replace(/[^a-zA-Z]/g, "_")
SanitizeIdLettersOnly(id) ==
    [i \in 1..Len(id) |-> IF id[i] \in AlnumDash \ ({"-"} \cup {Digits[d] : d \in 1..10})
                          THEN id[i] ELSE "_"]
\* id.replace(/[^a-zA-Z0-9-]/g, "_")
SanitizeId(id) == [i \in 1..Len(id) |-> IF id[i] \in AlnumDash THEN id[i] ELSE "_"]

\* `${fileKey}_${sanitizedId}.png`; imagePath is this name under figmaExportsDir
ExportFileName(fileKey, id) ==
    fileKey \o <<"_">> \o SanitizeId(id) \o <<".", "p", "n", "g">>

---------------------------------------------------------------------------
(* parseFigmaUrl *)

StrFile == <<"f", "i", "l", "e">>
StrDesign == <<"d", "e", "s", "i", "g", "n">>
StrProto == <<"p", "r", "o", "t", "o">>
PathKeywords == {StrFile, StrDesign, StrProto}

\* A URL string, as what `new URL` makes of it: absolute or not (new URL throws
\* on a string that is not an absolute URL), urlObj.pathname.split("/") and the
\* node-id query parameter; figma tells whether the string contains "figma.com".
NoParam == [present |-> FALSE, value |-> <<>>]
Param(v) == [present |-> TRUE, value |-> v]
MkUrl(abs, path, nodeId) == [abs |-> abs, figma |-> TRUE, path |-> path, nodeId |-> nodeId]

\* new URL(url) throws
UrlThrows(url) == ~url.abs

NoParsed == [ok |-> FALSE, fileKey |-> <<>>, nodeId |-> <<>>]

\* parseFigmaUrl going on to the next keyword when one is not followed by a key
ParseFigmaUrlAnyKeyword(url) ==
    LET parts == url.path
        hits == {i \in 1..(Len(parts) - 1) : parts[i] \in PathKeywords /\ parts[i + 1] # <<>>}
        first == CHOOSE i \in hits : \A j \in hits : i <= j
        raw == IF url.nodeId.present THEN url.nodeId.value ELSE <<>>
    IN IF hits = {} THEN NoParsed
       ELSE [ok |-> TRUE, fileKey |-> parts[first + 1], nodeId |-> HyphensToColons(raw)]
\* lines 358-378; an absent fileKey or nodeId is the empty string, which the
\* code treats like null (!fileKey, rawNodeId ? ... : null)
ParseFigmaUrl(url) ==
    LET parts == url.path
        hits == {i \in 1..Len(parts) : parts[i] \in PathKeywords}
        first == CHOOSE i \in hits : \A j \in hits : i <= j
        fileKey == IF hits = {} \/ first + 1 > Len(parts) THEN <<>> ELSE parts[first + 1]
        raw == IF url.nodeId.present THEN url.nodeId.value ELSE <<>>
    IN IF fileKey = <<>> THEN NoParsed
       ELSE [ok |-> TRUE, fileKey |-> fileKey, nodeId |-> HyphensToColons(raw)]

---------------------------------------------------------------------------
(* What the design backend serves *)

NoBox == [present |-> FALSE, width |-> 0, height |-> 0]
Box(w, h) == [present |-> TRUE, width |-> w, height |-> h]

LargeWidth == 1500
LargeHeight == 2000
MinChildSize == 100
MaxChildExports == 8

\* bb && (bb.width > 1500 || bb.height > 2000)
IsLargeAnd(bb) == bb.present /\ bb.width > LargeWidth /\ bb.height > LargeHeight
IsLarge(bb) == bb.present /\ (bb.width > LargeWidth \/ bb.height > LargeHeight)

ExportableTypes == {"FRAME", "COMPONENT", "GROUP", "SECTION"}

\* isExportable && hasSize of lines 492-500
IsExportableChildAnySize(child) == child.type \in ExportableTypes
IsExportableChild(child) ==
    /\ child.type \in ExportableTypes
    /\ child.bb.present
    /\ child.bb.width >= MinChildSize
    /\ child.bb.height >= MinChildSize

\* the children pushed to exportableChildren, in document order
ExportableChildren(doc) ==
    IF doc.hasChildren THEN SelectSeq(doc.children, IsExportableChild) ELSE <<>>

\* exportableChildren.slice(0, 8).map((c) => c.id)
ChildIdsOfUncapped(exportable) == [i \in 1..Len(exportable) |-> exportable[i].id]
ChildIdsOf(exportable) ==
    LET n == IF Len(exportable) < MaxChildExports THEN Len(exportable)
             ELSE MaxChildExports
    IN [i \in 1..n |-> exportable[i].id]

\* the ids the provider gives to the i-th child
ChildId(i) == <<"7", Digits[(i \div 10) + 1], ":", Digits[(i % 10) + 1]>>
ChildName(i) == <<"c", Digits[(i \div 10) + 1], Digits[(i % 10) + 1]>>
DocName == <<"F">>

ChildKinds ==
    {[type |-> "FRAME", bb |-> Box(100, 100)],
     [type |-> "SECTION", bb |-> Box(100, 99)],
     [type |-> "GROUP", bb |-> Box(99, 100)],
     [type |-> "TEXT", bb |-> Box(200, 200)],
     [type |-> "COMPONENT", bb |-> NoBox]}

ParentBoxes == {NoBox, Box(1500, 2000), Box(1501, 100), Box(100, 2001)}

MkChild(i, kind) ==
    [id |-> ChildId(i), name |-> ChildName(i), type |-> kind.type, bb |-> kind.bb]

ChildLists(maxLen) ==
    UNION {{[i \in 1..n |-> MkChild(i, ks[i])] : ks \in [1..n -> ChildKinds]} : n \in 0..maxLen}

NoDoc == [name |-> <<>>, bb |-> NoBox, hasChildren |-> FALSE, children |-> <<>>]

NodeDocs(maxLen) ==
    {[name |-> DocName, bb |-> b, hasChildren |-> FALSE, children |-> <<>>] : b \in ParentBoxes}
    \cup {[name |-> DocName, bb |-> b, hasChildren |-> TRUE, children |-> cs] :
            b \in ParentBoxes, cs \in ChildLists(maxLen)}

\* the body of the nodes response: not JSON, JSON without the node, or the node
NodeBodies(maxLen) ==
    {[valid |-> FALSE, hasNode |-> FALSE, doc |-> NoDoc],
     [valid |-> TRUE, hasNode |-> FALSE, doc |-> NoDoc]}
    \cup {[valid |-> TRUE, hasNode |-> TRUE, doc |-> d] : d \in NodeDocs(maxLen)}

\* large nodes with more qualifying children than one export takes: nine frames,
\* and a text followed by nine frames
WideDocs ==
    LET frame == [type |-> "FRAME", bb |-> Box(100, 100)]
        text == [type |-> "TEXT", bb |-> Box(200, 200)]
        n == MaxChildExports + 1
    IN {[name |-> DocName, bb |-> Box(1501, 100), hasChildren |-> TRUE,
         children |-> [i \in 1..n |-> MkChild(i, frame)]],
        [name |-> DocName, bb |-> Box(100, 2001), hasChildren |-> TRUE,
         children |-> [i \in 1..(n + 1) |-> MkChild(i, IF i = 1 THEN text ELSE frame)]]}

WideBodies == {[valid |-> TRUE, hasNode |-> TRUE, doc |-> d] : d \in WideDocs}

\* the body of the file response: not JSON, or fileData with or without a name
FileBodies == {"invalid", "named", "unnamed"}

\* the body of the images response for the ids asked: not JSON, or imgData
\* whose images map gives a URL to some of the ids (none when it has no images)
\* (of a full batch of ids: none, all, all but the first, and three of them)
ImageBodies(ids) ==
    LET all == {ids[i] : i \in 1..Len(ids)}
        given == IF Len(ids) < MaxChildExports THEN SUBSET all
                 ELSE {{}, all, all \ {ids[1]}, {ids[1], ids[2], ids[Len(ids)]}}
    IN {[valid |-> FALSE, urls |-> {}]}
       \cup {[valid |-> TRUE, urls |-> s] : s \in given}

\* an image download: 2xx with its bytes, another status, or a rejected fetch
DownloadOutcomes == {"ok", "notOk", "throws"}

---------------------------------------------------------------------------
(* fetchFigmaDesign *)

Err(code) == [code |-> code, status |-> 0, retryAfter |-> NoWaitTime]
NoError == Err("none")

\* the { error: ... } objects of lines 422-453 and 578
ErrNotConfigured == Err("NotConfigured")
ErrInvalidUrl == Err("InvalidUrl")
ErrRateLimited(waitTime) == [code |-> "RateLimited", status |-> 0, retryAfter |-> waitTime]
ErrAccessDenied == Err("AccessDenied")
ErrNotFound == Err("NotFound")
ErrApi(status) == [code |-> "ApiError", status |-> status, retryAfter |-> NoWaitTime]
ErrFetchFailed == Err("FetchFailed")

\* lines 446-453
FileErrorOfNoNotFound(status) == IF status = 403 THEN ErrAccessDenied ELSE ErrApi(status)
FileErrorOf(status) ==
    IF status = 403 THEN ErrAccessDenied
    ELSE IF status = 404 THEN ErrNotFound
    ELSE ErrApi(status)

ErrorResult(e) ==
    [error |-> e, hasName |-> FALSE, nodeId |-> <<>>, nodeName |-> <<>>, images |-> <<>>]

\* the result object of lines 457-464
DesignResult(hasName, nodeId) ==
    [error |-> NoError, hasName |-> hasName, nodeId |-> nodeId, nodeName |-> <<>>,
     images |-> <<>>]

NoFigmaResult == ErrorResult(NoError)

FileCall(fileKey) == <<"file", fileKey>>
NodesCall(fileKey, nodeId) == <<"nodes", fileKey, nodeId>>
ImagesCall(fileKey, ids) == <<"images", fileKey, ids>>
DownloadCall(id) == <<"download", id>>

DiskFresh ==
    /\ figmaConfig = TRUE
    /\ exportsDir = FALSE
    /\ exportFiles = {}

FigmaIdle ==
    /\ pcF = "idle"
    /\ fUrl = MkUrl(TRUE, <<>>, NoParam)
    /\ fParsed = NoParsed
    /\ fResult = NoFigmaResult
    /\ fDoc = NoDoc
    /\ fExportable = <<>>
    /\ fChildIds = <<>>
    /\ fImages = {}
    /\ fIdx = 0
    /\ fCalls = <<>>
    /\ fWrites = <<>>

\* return res (the locals stay as they are)
FigmaReturn(res) ==
    /\ pcF' = "return"
    /\ fResult' = res

\* catch (e) { return { error: `Figma fetch failed: ...` } }: lines 577-579
FigmaCatch == FigmaReturn(ErrorResult(ErrFetchFailed))

\* the call of fetchFigmaDesign(url), up to its first await: lines 420-438
FigmaEnter(url) ==
    /\ fUrl' = url
    /\ fDoc' = NoDoc
    /\ fExportable' = <<>>
    /\ fChildIds' = <<>>
    /\ fImages' = {}
    /\ fIdx' = 0
    /\ fWrites' = <<>>
    /\ IF ~figmaConfig
       THEN /\ FigmaReturn(ErrorResult(ErrNotConfigured))
            /\ fParsed' = NoParsed
            /\ fCalls' = <<>>
            /\ UNCHANGED retryVars
       ELSE IF UrlThrows(url)
       THEN \* parseFigmaUrl is called outside the try block
            /\ pcF' = "threw"
            /\ fResult' = NoFigmaResult
            /\ fParsed' = NoParsed
            /\ fCalls' = <<>>
            /\ UNCHANGED retryVars
       ELSE IF ~ParseFigmaUrl(url).ok
       THEN /\ FigmaReturn(ErrorResult(ErrInvalidUrl))
            /\ fParsed' = NoParsed
            /\ fCalls' = <<>>
            /\ UNCHANGED retryVars
       ELSE /\ pcF' = "fileInfo"
            /\ fResult' = NoFigmaResult
            /\ fParsed' = ParseFigmaUrl(url)
            /\ fCalls' = <<FileCall(ParseFigmaUrl(url).fileKey)>>
            /\ RetryEnter(DefaultMaxRetries, DefaultMaxWaitSec)
    /\ UNCHANGED <<remote, diskVars>>

\* figmaFetchWithRetry has returned or thrown
RetryOver == pcR \in {"return", "threw"}
RetryGotOk == pcR = "return" /\ ~rResult.rateLimited /\ IsOk(rResult.status)

\* the file call is over: lines 440-475
FigmaOnFileInfo ==
    /\ UNCHANGED <<ticketVars, toolVars>>
    /\ pcF = "fileInfo"
    /\ RetryOver
    /\ \E body \in FileBodies :
        IF pcR = "threw" \/ (RetryGotOk /\ body = "invalid")
        THEN /\ FigmaCatch /\ RetryLeave
             /\ UNCHANGED <<fCalls, diskVars>>
        ELSE IF rResult.rateLimited
        THEN /\ FigmaReturn(ErrorResult(ErrRateLimited(rResult.retryAfter)))
             /\ RetryLeave
             /\ UNCHANGED <<fCalls, diskVars>>
        ELSE IF ~IsOk(rResult.status)
        THEN /\ FigmaReturn(ErrorResult(FileErrorOf(rResult.status)))
             /\ RetryLeave
             /\ UNCHANGED <<fCalls, diskVars>>
        ELSE /\ exportsDir' = TRUE
             /\ UNCHANGED <<figmaConfig, exportFiles>>
             /\ IF fParsed.nodeId # <<>>
                THEN /\ pcF' = "nodeInfo"
                     /\ fResult' = DesignResult(body = "named", fParsed.nodeId)
                     /\ fCalls' = Append(fCalls, NodesCall(fParsed.fileKey, fParsed.nodeId))
                     /\ RetryEnter(DefaultMaxRetries, DefaultMaxWaitSec)
                ELSE /\ FigmaReturn(DesignResult(body = "named", fParsed.nodeId))
                     /\ RetryLeave
                     /\ UNCHANGED fCalls
    /\ UNCHANGED <<remote, fUrl, fParsed, fDoc, fExportable, fChildIds, fImages, fIdx, fWrites>>

\* the node call is over: lines 477-550
FigmaOnNodeInfo ==
    /\ UNCHANGED <<ticketVars, toolVars>>
    /\ pcF = "nodeInfo"
    /\ RetryOver
    /\ \E body \in remote.nodeBodies :
        IF pcR = "threw" \/ (RetryGotOk /\ ~body.valid)
        THEN /\ FigmaCatch /\ RetryLeave
             /\ UNCHANGED <<fCalls, fDoc, fExportable, fChildIds>>
        ELSE IF ~RetryGotOk \/ ~body.hasNode
        THEN \* nodeRes.ok is false or undefined, or there is no node.document
             /\ FigmaReturn(fResult) /\ RetryLeave
             /\ UNCHANGED <<fCalls, fDoc, fExportable, fChildIds>>
        ELSE LET doc == body.doc
                 exportable == ExportableChildren(doc)
                 res == [fResult EXCEPT !.nodeName = doc.name]
             IN /\ fDoc' = doc
                /\ fExportable' = exportable
                /\ fResult' = res
                /\ RetryEnter(DefaultMaxRetries, DefaultMaxWaitSec)
                /\ IF IsLarge(doc.bb) /\ Len(exportable) > 0
                   THEN /\ pcF' = "imagesBatch"
                        /\ fChildIds' = ChildIdsOf(exportable)
                        /\ fCalls' = Append(fCalls,
                                        ImagesCall(fParsed.fileKey, ChildIdsOf(exportable)))
                   ELSE /\ pcF' = "imagesWhole"
                        /\ fChildIds' = <<>>
                        /\ fCalls' = Append(fCalls,
                                        ImagesCall(fParsed.fileKey, <<fParsed.nodeId>>))
    /\ UNCHANGED <<remote, diskVars, fUrl, fParsed, fImages, fIdx, fWrites>>

\* the for loop of line 517 runs on from position `from` to the next child that
\* has an image URL, whose download it awaits, or to its end and the return
ChildLoopFrom(from, urls, res, calls) ==
    LET cand == {i \in from..Len(fChildIds) : fChildIds[i] \in urls} IN
    IF cand = {}
    THEN /\ FigmaReturn(res)
         /\ fIdx' = Len(fChildIds) + 1
         /\ fCalls' = calls
    ELSE LET i == CHOOSE c \in cand : \A d \in cand : c <= d IN
         /\ pcF' = "childDownload"
         /\ fResult' = res
         /\ fIdx' = i
         /\ fCalls' = Append(calls, DownloadCall(fChildIds[i]))

\* the batched images call is over: lines 515-521
FigmaOnImagesBatch ==
    /\ UNCHANGED <<ticketVars, toolVars>>
    /\ pcF = "imagesBatch"
    /\ RetryOver
    /\ RetryLeave
    /\ \E body \in ImageBodies(fChildIds) :
        IF pcR = "threw" \/ (RetryGotOk /\ ~body.valid)
        THEN /\ FigmaCatch
             /\ UNCHANGED <<fCalls, fImages, fIdx>>
        ELSE IF ~RetryGotOk
        THEN /\ FigmaReturn(fResult)
             /\ UNCHANGED <<fCalls, fImages, fIdx>>
        ELSE /\ fImages' = body.urls
             /\ ChildLoopFrom(1, body.urls, fResult, fCalls)
    /\ UNCHANGED <<remote, diskVars, fUrl, fParsed, fDoc, fExportable, fChildIds, fWrites>>

\* name: childInfo?.name || childId
ChildImageName(id) ==
    LET found == SelectSeq(fExportable, LAMBDA c : c.id = id) IN
    IF Len(found) > 0 /\ found[1].name # <<>> THEN found[1].name ELSE id

\* the download of a child image is over: lines 522-543, then the loop goes on
FigmaOnChildDownloadUncaught ==
    /\ UNCHANGED <<ticketVars, toolVars>>
    /\ pcF = "childDownload"
    /\ \E outcome \in DownloadOutcomes :
        LET id == fChildIds[fIdx]
            file == ExportFileName(fParsed.fileKey, id)
            img == [path |-> file, name |-> ChildImageName(id)]
        IN IF outcome = "ok"
           THEN /\ exportFiles' = exportFiles \cup {file}
                /\ fWrites' = Append(fWrites, file)
                /\ ChildLoopFrom(fIdx + 1, fImages,
                                 [fResult EXCEPT !.images = Append(@, img)], fCalls)
           ELSE IF outcome = "notOk"
           THEN /\ UNCHANGED <<exportFiles, fWrites>>
                /\ ChildLoopFrom(fIdx + 1, fImages, fResult, fCalls)
           ELSE /\ FigmaCatch
                /\ UNCHANGED <<exportFiles, fWrites, fIdx, fCalls>>
    /\ UNCHANGED <<remote, retryVars, figmaConfig, exportsDir, fUrl, fParsed, fDoc,
                   fExportable, fChildIds, fImages>>
FigmaOnChildDownload ==
    /\ UNCHANGED <<ticketVars, toolVars>>
    /\ pcF = "childDownload"
    /\ \E outcome \in DownloadOutcomes :
        LET id == fChildIds[fIdx]
            file == ExportFileName(fParsed.fileKey, id)
            img == [path |-> file, name |-> ChildImageName(id)]
        IN IF outcome = "ok"
           THEN /\ exportFiles' = exportFiles \cup {file}
                /\ fWrites' = Append(fWrites, file)
                /\ ChildLoopFrom(fIdx + 1, fImages,
                                 [fResult EXCEPT !.images = Append(@, img)], fCalls)
           ELSE \* not ok, or the exception is swallowed by the inner catch
                /\ UNCHANGED <<exportFiles, fWrites>>
                /\ ChildLoopFrom(fIdx + 1, fImages, fResult, fCalls)
    /\ UNCHANGED <<remote, retryVars, figmaConfig, exportsDir, fUrl, fParsed, fDoc,
                   fExportable, fChildIds, fImages>>

\* the whole-node images call is over: lines 552-556
FigmaOnImagesWhole ==
    /\ UNCHANGED <<ticketVars, toolVars>>
    /\ pcF = "imagesWhole"
    /\ RetryOver
    /\ RetryLeave
    /\ \E body \in ImageBodies(<<fParsed.nodeId>>) :
        IF pcR = "threw" \/ (RetryGotOk /\ ~body.valid)
        THEN /\ FigmaCatch
             /\ UNCHANGED <<fCalls, fImages>>
        ELSE IF ~RetryGotOk \/ fParsed.nodeId \notin body.urls
        THEN /\ FigmaReturn(fResult)
             /\ fImages' = IF RetryGotOk THEN body.urls ELSE fImages
             /\ UNCHANGED fCalls
        ELSE /\ pcF' = "wholeDownload"
             /\ fImages' = body.urls
             /\ fCalls' = Append(fCalls, DownloadCall(fParsed.nodeId))
             /\ UNCHANGED fResult
    /\ UNCHANGED <<remote, diskVars, fUrl, fParsed, fDoc, fExportable, fChildIds, fIdx,
                   fWrites>>

\* the download of the whole-node image is over: lines 557-569
FigmaOnWholeDownload ==
    /\ UNCHANGED <<ticketVars, toolVars>>
    /\ pcF = "wholeDownload"
    /\ \E outcome \in DownloadOutcomes :
        LET file == ExportFileName(fParsed.fileKey, fParsed.nodeId)
            img == [path |-> file, name |-> fDoc.name]
        IN IF outcome = "ok"
           THEN /\ exportFiles' = exportFiles \cup {file}
                /\ fWrites' = Append(fWrites, file)
                /\ FigmaReturn([fResult EXCEPT !.images = Append(@, img)])
           ELSE IF outcome = "notOk"
           THEN /\ FigmaReturn(fResult)
                /\ UNCHANGED <<exportFiles, fWrites>>
           ELSE \* this fetch is not inside an inner try: the outer catch takes it
                /\ FigmaCatch
                /\ UNCHANGED <<exportFiles, fWrites>>
    /\ UNCHANGED <<remote, retryVars, figmaConfig, exportsDir, fUrl, fParsed, fDoc,
                   fExportable, fChildIds, fImages, fIdx, fCalls>>

---------------------------------------------------------------------------
(* Decoded text: a sequence of tokens *)

NoUrl == MkUrl(TRUE, <<>>, NoParam)

\* a bare ticket key, a browse URL of a ticket key, a URL, any other word
KeyTok(k) == [t |-> "key", key |-> k, url |-> NoUrl]
BrowseTok(k) == [t |-> "browse", key |-> k, url |-> NoUrl]
UrlTok(u) == [t |-> "url", key |-> "", url |-> u]
WordTok == [t |-> "word", key |-> "", url |-> NoUrl]

\* [...new Set(seq)]: the first occurrence of each element, in order
RECURSIVE Dedupe(_)
Dedupe(seq) ==
    IF seq = <<>> THEN <<>>
    ELSE LET front == Dedupe(SubSeq(seq, 1, Len(seq) - 1))
             last == seq[Len(seq)]
         IN IF \E i \in 1..Len(front) : front[i] = last THEN front
            ELSE Append(front, last)

\* the two passes of lines 326-336 over the text: the keys of the browse URLs,
\* then every key (the bare-key pattern matches inside a browse URL too), each
\* unless it is currentKey, collected in one Set
FindJiraTicketKeys(text, currentKey) ==
    LET browse == SelectSeq(text, LAMBDA tok : tok.t = "browse")
        any == SelectSeq(text, LAMBDA tok : tok.t \in {"browse", "key"})
        both == browse \o any
        keys == [i \in 1..Len(both) |-> both[i].key]
    IN Dedupe(SelectSeq(keys, LAMBDA k : k # currentKey))

\* the pattern of line 347: https://figma.com or www.figma.com, one of the three
\* keywords, an alphanumeric key and a slash after it
UrlPatternMatches(u) ==
    /\ u.abs
    /\ u.figma
    /\ Len(u.path) >= 4
    /\ u.path[2] \in PathKeywords
    /\ u.path[3] # <<>>
    /\ \A i \in 1..Len(u.path[3]) : u.path[3][i] \in AlnumDash \ {"-"}

\* findFigmaUrls
FindFigmaUrls(text) ==
    LET hits == SelectSeq(text, LAMBDA tok : tok.t = "url" /\ UrlPatternMatches(tok.url))
    IN Dedupe([i \in 1..Len(hits) |-> hits[i].url])

---------------------------------------------------------------------------
(* Issues of the ticket backend *)

\* extractText(document, []): the text and the URLs of a document
MkDoc(text, urls) == [text |-> text, urls |-> urls]
EmptyDoc == MkDoc(<<>>, <<>>)

NoKey == ""
MkLink(outward, inward) == [outward |-> outward, inward |-> inward]
MkAttachment(isImage, filename) == [isImage |-> isImage, filename |-> filename]

MkIssue(parent, subtasks, issuelinks, description, comments, attachment) ==
    [parent |-> parent, subtasks |-> subtasks, issuelinks |-> issuelinks,
     description |-> description, comments |-> comments, attachment |-> attachment]

NoIssue == MkIssue(NoKey, <<>>, <<>>, EmptyDoc, <<>>, <<>>)

\* lines 737-753: the outward issue of a link, then its inward issue
RECURSIVE LinkedIssues(_)
LinkedIssues(links) ==
    IF links = <<>> THEN <<>>
    ELSE LET l == Head(links) IN
         (IF l.outward # NoKey THEN <<l.outward>> ELSE <<>>)
            \o (IF l.inward # NoKey THEN <<l.inward>> ELSE <<>>)
            \o LinkedIssues(Tail(links))

\* alreadyFetched without the keys of the linked issues
AlreadyFetchedNoLinks(issueKey, fields) ==
    ({issueKey}
        \cup (IF fields.parent # NoKey THEN {fields.parent} ELSE {})
        \cup {fields.subtasks[i] : i \in 1..Len(fields.subtasks)})
        \ {NoKey}
\* the set alreadyFetched of lines 806-816
AlreadyFetched(issueKey, fields) ==
    ({issueKey}
        \cup (IF fields.parent # NoKey THEN {fields.parent} ELSE {})
        \cup {fields.subtasks[i] : i \in 1..Len(fields.subtasks)}
        \cup {fields.issuelinks[i].outward : i \in 1..Len(fields.issuelinks)}
        \cup {fields.issuelinks[i].inward : i \in 1..Len(fields.issuelinks)})
        \ {NoKey}

\* allText += " " + text, for each document of a list
RECURSIVE TextsOf(_)
TextsOf(docs) == IF docs = <<>> THEN <<>> ELSE Head(docs).text \o TextsOf(Tail(docs))

RECURSIVE UrlsOf(_)
UrlsOf(docs) == IF docs = <<>> THEN <<>> ELSE Head(docs).urls \o UrlsOf(Tail(docs))

---------------------------------------------------------------------------
(* getTicket *)

MaxLinkedToFetch == 10
MaxReferencedToFetch == 10

Min(a, b) == IF a < b THEN a ELSE b

TicketIdleState ==
    [pc |-> "idle",            \* "idle", "primary", "parent", "attachment", "subtask",
                               \* "linked", "referenced", "design", "return", "threw"
     args |-> [downloadImages |-> "omitted", fetchFigma |-> "omitted"],
     issueKey |-> NoKey, downloadImages |-> TRUE, fetchFigma |-> TRUE,
     fields |-> NoIssue,       \* issue.fields
     allText |-> <<>>, allUrls |-> <<>>,
     output |-> <<>>,          \* the report, as its parts in order
     calls |-> <<>>,           \* the remote calls and exports started, in order
     failures |-> <<>>,        \* those of the calls that failed, in order
     idx |-> 0,                \* the position of the loop that is waiting
     linked |-> <<>>,          \* linkedIssues (their keys)
     toFetch |-> <<>>,         \* ticketsToFetch
     figmaUrls |-> <<>>,       \* allFigmaUrls
     downloaded |-> <<>>,      \* downloadedImages
     figmaDesigns |-> <<>>]

Emit(st, item) == [st EXCEPT !.output = Append(@, item)]
Issue(st, call) == [st EXCEPT !.calls = Append(@, call)]
\* the call the run is waiting for has failed
Failed(st) == [st EXCEPT !.failures = Append(@, st.calls[Len(st.calls)])]

JiraCall(stage, key) == <<"jira", stage, key>>
AttachmentCall(filename) == <<"attachment", filename>>
FigmaExport(url) == <<"figma", url>>

\* return { text: output, jiraImages, figmaDesigns }
Finish(st) == [st EXCEPT !.pc = "return", !.idx = 0]

\* the for loop of line 895, from position i
DesignLoop(st, i) ==
    IF i <= Len(st.figmaUrls)
    THEN [Issue(st, FigmaExport(st.figmaUrls[i])) EXCEPT !.pc = "design", !.idx = i]
    ELSE Finish(st)

\* lines 883-895
Design(st, cfg) ==
    IF st.fetchFigma /\ cfg
    THEN LET textUrls == FindFigmaUrls(st.allText)
             embedded == SelectSeq(st.allUrls, LAMBDA u : u.figma)
             all == Dedupe(textUrls \o embedded)
         IN IF Len(all) > 0
            THEN DesignLoop(Emit([st EXCEPT !.figmaUrls = all],
                                 <<"figmaHeader", Len(all)>>), 1)
            ELSE Finish(st)
    ELSE Finish(st)

\* the loop over ticketsToFetch without its cap
ReferencedLoopUncapped(st, i, cfg) ==
    IF i <= Len(st.toFetch)
    THEN [Issue(st, JiraCall("referenced", st.toFetch[i]))
            EXCEPT !.pc = "referenced", !.idx = i]
    ELSE Design(st, cfg)
\* the for loop of lines 827-875 from position i, then lines 877-879
ReferencedLoop(st, i, cfg) ==
    IF i <= Min(Len(st.toFetch), MaxReferencedToFetch)
    THEN [Issue(st, JiraCall("referenced", st.toFetch[i]))
            EXCEPT !.pc = "referenced", !.idx = i]
    ELSE Design(IF Len(st.toFetch) > MaxReferencedToFetch
                THEN Emit(st, <<"moreReferenced", Len(st.toFetch) - MaxReferencedToFetch>>)
                ELSE st, cfg)

\* lines 803-824
Referenced(st, cfg) ==
    LET referencedKeys == FindJiraTicketKeys(st.allText, st.issueKey)
        already == AlreadyFetched(st.issueKey, st.fields)
        ticketsToFetch == SelectSeq(referencedKeys, LAMBDA k : k \notin already)
    IN IF Len(ticketsToFetch) > 0
       THEN ReferencedLoop(Emit([st EXCEPT !.toFetch = ticketsToFetch],
                                <<"referencedHeader", Len(ticketsToFetch)>>), 1, cfg)
       ELSE Design(st, cfg)

\* the for loop of lines 757-795 from position i, then lines 797-799
LinkedLoopUncapped(st, i, cfg) ==
    IF i <= Len(st.linked)
    THEN [Issue(Emit(st, <<"linkedHeader", st.linked[i]>>), JiraCall("linked", st.linked[i]))
            EXCEPT !.pc = "linked", !.idx = i]
    ELSE Referenced(st, cfg)
LinkedLoop(st, i, cfg) ==
    IF i <= Min(Len(st.linked), MaxLinkedToFetch)
    THEN [Issue(Emit(st, <<"linkedHeader", st.linked[i]>>), JiraCall("linked", st.linked[i]))
            EXCEPT !.pc = "linked", !.idx = i]
    ELSE Referenced(IF Len(st.linked) > MaxLinkedToFetch
                    THEN Emit(st, <<"moreLinked", Len(st.linked) - MaxLinkedToFetch>>)
                    ELSE st, cfg)

\* lines 733-756
Linked(st, cfg) ==
    IF Len(st.fields.issuelinks) > 0
    THEN LinkedLoop(Emit([st EXCEPT !.linked = LinkedIssues(st.fields.issuelinks)],
                         <<"linkedIssuesHeader", Len(st.fields.issuelinks)>>), 1, cfg)
    ELSE Referenced(st, cfg)

\* the for loop of lines 704-729 from position i
SubtaskLoop(st, i, cfg) ==
    IF i <= Len(st.fields.subtasks)
    THEN [Issue(Emit(st, <<"subtaskHeader", st.fields.subtasks[i]>>),
                JiraCall("subtask", st.fields.subtasks[i]))
            EXCEPT !.pc = "subtask", !.idx = i]
    ELSE Linked(st, cfg)

\* lines 701-704
Subtasks(st, cfg) ==
    IF Len(st.fields.subtasks) > 0
    THEN SubtaskLoop(Emit(st, <<"subtasksHeader", Len(st.fields.subtasks)>>), 1, cfg)
    ELSE Linked(st, cfg)

\* what downloadAttachment saves: attachmentDir/issueKey/filename
AttachmentPath(issueKey, filename) == <<issueKey, filename>>

\* the for loop of lines 678-697 from position i; `files` are the attachment
\* files on disk: downloadAttachment returns the path of a file that exists
\* without a request (lines 112-114)
RECURSIVE AttachmentLoop(_, _, _, _)
AttachmentLoop(st, i, files, cfg) ==
    IF i > Len(st.fields.attachment) THEN Subtasks(st, cfg)
    ELSE LET att == st.fields.attachment[i]
             listed == Emit(st, <<"attachment", att.filename>>)
             path == AttachmentPath(st.issueKey, att.filename)
         IN IF st.downloadImages /\ att.isImage
            THEN IF path \in files
                 THEN AttachmentLoop(
                          [Emit(listed, <<"local", path>>)
                             EXCEPT !.downloaded = Append(@, path)], i + 1, files, cfg)
                 ELSE [Issue(listed, AttachmentCall(att.filename))
                         EXCEPT !.pc = "attachment", !.idx = i]
            ELSE AttachmentLoop(Emit(listed, <<"attachmentUrl", att.filename>>),
                                i + 1, files, cfg)

\* lines 676-678
Attachments(st, files, cfg) ==
    IF Len(st.fields.attachment) > 0
    THEN AttachmentLoop(Emit(st, <<"attachmentsHeader", Len(st.fields.attachment)>>),
                        1, files, cfg)
    ELSE Subtasks(st, cfg)

\* lines 661-672: the comments of the ticket
Comments(st, files, cfg) ==
    LET cs == st.fields.comments IN
    IF Len(cs) > 0
    THEN Attachments(Emit([st EXCEPT !.allText = @ \o TextsOf(cs),
                                     !.allUrls = @ \o UrlsOf(cs)],
                          <<"commentsHeader", Len(cs)>>), files, cfg)
    ELSE Attachments(st, files, cfg)

\* the primary fetch has returned `issue`: lines 586-624
AfterPrimary(st, issue, files, cfg) ==
    LET st1 == Emit([st EXCEPT !.fields = issue,
                               !.allText = issue.description.text,
                               !.allUrls = issue.description.urls],
                    <<"title", st.issueKey>>)
    IN IF issue.parent # NoKey
       THEN [Issue(Emit(st1, <<"parentHeader", issue.parent>>),
                   JiraCall("parent", issue.parent))
               EXCEPT !.pc = "parent"]
       ELSE Comments(st1, files, cfg)

ErrorMessage == "Jira API error"

\* the parent fetch is over: lines 625-657
AfterParent(st, ok, parent, files, cfg) ==
    IF ok
    THEN LET withDesc ==
                 IF parent.description.text # <<>>
                 THEN [st EXCEPT !.allText = @ \o parent.description.text,
                                 !.allUrls = @ \o parent.description.urls]
                 ELSE st
             withComments ==
                 [withDesc EXCEPT !.allText = @ \o TextsOf(parent.comments)]
         IN Comments(Emit(withComments, <<"parentDetails", st.fields.parent>>), files, cfg)
    ELSE Comments(Emit(Failed(st), <<"parentError", st.fields.parent, ErrorMessage>>),
                  files, cfg)

\* a download of an image attachment is over: lines 689-693
AfterAttachment(st, ok, files, cfg) ==
    LET att == st.fields.attachment[st.idx]
        path == AttachmentPath(st.issueKey, att.filename)
    IN IF ok
       THEN AttachmentLoop([Emit(st, <<"local", path>>)
                              EXCEPT !.downloaded = Append(@, path)],
                           st.idx + 1, files, cfg)
       ELSE AttachmentLoop(Emit(Failed(st), <<"downloadFailed", att.filename, ErrorMessage>>),
                           st.idx + 1, files, cfg)

\* a subtask fetch is over: lines 711-728; the catch writes an empty line only
AfterSubtask(st, ok, cfg) ==
    IF ok
    THEN SubtaskLoop(Emit(st, <<"subtaskDetails", st.fields.subtasks[st.idx]>>),
                     st.idx + 1, cfg)
    ELSE SubtaskLoop(Failed(st), st.idx + 1, cfg)

\* a linked-issue fetch is over: lines 766-794
AfterLinked(st, ok, cfg) ==
    IF ok
    THEN LinkedLoop(Emit(st, <<"linkedDetails", st.linked[st.idx]>>), st.idx + 1, cfg)
    ELSE LinkedLoop(Emit(Failed(st), <<"linkedError", st.linked[st.idx], ErrorMessage>>),
                    st.idx + 1, cfg)

\* a referenced-ticket fetch is over: lines 838-874
AfterReferenced(st, ok, ref, cfg) ==
    IF ok
    THEN LET withText ==
                 IF Len(FindFigmaUrls(ref.description.text)) > 0
                 THEN [st EXCEPT !.allText = @ \o ref.description.text]
                 ELSE st
         IN ReferencedLoop(Emit(withText, <<"referencedDetails", st.toFetch[st.idx]>>),
                           st.idx + 1, cfg)
    ELSE ReferencedLoop(Emit(Failed(st), <<"referencedError", st.toFetch[st.idx], ErrorMessage>>),
                        st.idx + 1, cfg)

\* fetchFigmaDesign(url) has returned `design`: lines 897-915
AfterDesign(st, design) ==
    LET url == st.figmaUrls[st.idx] IN
    IF design.error # NoError
    THEN DesignLoop(Emit(st, <<"figmaError", url, design.error>>), st.idx + 1)
    ELSE IF design.hasName
    THEN DesignLoop(
             IF Len(design.images) > 0
             THEN [Emit(st, <<"figmaDesign", url, design.images>>)
                     EXCEPT !.figmaDesigns = Append(@, design)]
             ELSE Emit(st, <<"figmaDesign", url, design.images>>),
             st.idx + 1)
    ELSE DesignLoop(Emit(st, <<"figmaCouldNotFetch", url>>), st.idx + 1)

\* the caller of fetchFigmaDesign has its value: the call is over
FigmaLeave ==
    /\ pcF' = "idle"
    /\ fUrl' = NoUrl
    /\ fParsed' = NoParsed
    /\ fResult' = NoFigmaResult
    /\ fDoc' = NoDoc
    /\ fExportable' = <<>>
    /\ fChildIds' = <<>>
    /\ fImages' = {}
    /\ fIdx' = 0
    /\ fCalls' = <<>>
    /\ fWrites' = <<>>

\* getTicket starting the export of the first design URL of the text while the
\* first referenced ticket is still being fetched
TicketGoesToFanOut(next) ==
    /\ tk' = next
    /\ IF next.pc = "design"
       THEN FigmaEnter(next.figmaUrls[next.idx])
       ELSE IF next.pc = "referenced" /\ next.idx = 1
                 /\ Len(FindFigmaUrls(next.allText)) > 0
       THEN FigmaEnter(FindFigmaUrls(next.allText)[1])
       ELSE UNCHANGED <<remote, retryVars, diskVars, figmaVars>>
\* getTicket goes on to state `next`; when that is the call of fetchFigmaDesign
\* for the next URL, the call is made
TicketGoesTo(next) ==
    /\ tk' = next
    /\ IF next.pc = "design"
       THEN FigmaEnter(next.figmaUrls[next.idx])
       ELSE UNCHANGED <<remote, retryVars, diskVars, figmaVars>>

PrimaryKey == "A-1"

\* getTicket(issueKey, downloadImages, fetchFigma) is called: line 585
\* a flag of the jira_get_ticket arguments: omitted, true or false
FlagArgs == {"omitted", "true", "false"}

\* args.downloadImages !== false, args.fetchFigma !== false: lines 1220-1221
FlagValueStrict(arg) == arg = "true"
FlagValue(arg) == arg # "false"

\* jira_get_ticket calls getTicket(args.issueKey, downloadImages, fetchFigma)
TicketCall ==
    /\ tk.pc = "idle"
    /\ pcF = "idle"
    /\ \E dl \in FlagArgs, ff \in FlagArgs :
        tk' = [TicketIdleState EXCEPT !.pc = "primary", !.issueKey = PrimaryKey,
                                      !.args = [downloadImages |-> dl, fetchFigma |-> ff],
                                      !.downloadImages = FlagValue(dl),
                                      !.fetchFigma = FlagValue(ff),
                                      !.calls = <<JiraCall("primary", PrimaryKey)>>]
    /\ UNCHANGED <<remote, retryVars, diskVars, figmaVars, jira, attachFiles, toolVars>>

\* the primary fetch is over: fetchJira throws on a response that is not ok,
\* and nothing catches it
TicketOnPrimary ==
    /\ tk.pc = "primary"
    /\ \E ok \in BOOLEAN :
        IF ok
        THEN TicketGoesTo(AfterPrimary(tk, jira[tk.issueKey], attachFiles, figmaConfig))
        ELSE TicketGoesTo([Failed(tk) EXCEPT !.pc = "threw"])
    /\ UNCHANGED <<jira, attachFiles, toolVars>>

TicketOnParent ==
    /\ tk.pc = "parent"
    /\ \E ok \in BOOLEAN :
        TicketGoesTo(AfterParent(tk, ok, jira[tk.fields.parent], attachFiles, figmaConfig))
    /\ UNCHANGED <<jira, attachFiles, toolVars>>

\* the fetch of downloadAttachment is over: lines 120-127
TicketOnAttachmentAlwaysWrites ==
    /\ tk.pc = "attachment"
    /\ \E ok \in BOOLEAN :
        LET path == AttachmentPath(tk.issueKey, tk.fields.attachment[tk.idx].filename)
            files == attachFiles \cup {path}
        IN /\ attachFiles' = files
           /\ TicketGoesTo(AfterAttachment(tk, ok, files, figmaConfig))
    /\ UNCHANGED <<jira, toolVars>>
TicketOnAttachment ==
    /\ tk.pc = "attachment"
    /\ \E ok \in BOOLEAN :
        LET path == AttachmentPath(tk.issueKey, tk.fields.attachment[tk.idx].filename)
            files == IF ok THEN attachFiles \cup {path} ELSE attachFiles
        IN /\ attachFiles' = files
           /\ TicketGoesTo(AfterAttachment(tk, ok, files, figmaConfig))
    /\ UNCHANGED <<jira, toolVars>>

TicketOnSubtask ==
    /\ tk.pc = "subtask"
    /\ \E ok \in BOOLEAN : TicketGoesTo(AfterSubtask(tk, ok, figmaConfig))
    /\ UNCHANGED <<jira, attachFiles, toolVars>>

TicketOnLinked ==
    /\ tk.pc = "linked"
    /\ \E ok \in BOOLEAN : TicketGoesTo(AfterLinked(tk, ok, figmaConfig))
    /\ UNCHANGED <<jira, attachFiles, toolVars>>

TicketOnReferenced ==
    /\ tk.pc = "referenced"
    /\ \E ok \in BOOLEAN :
        TicketGoesTo(AfterReferenced(tk, ok, jira[tk.toFetch[tk.idx]], figmaConfig))
    /\ UNCHANGED <<jira, attachFiles, toolVars>>

\* fetchFigmaDesign is over: it returned, or it threw and nothing catches it
TicketOnDesign ==
    /\ tk.pc = "design"
    /\ pcF \in {"return", "threw"}
    /\ LET next == IF pcF = "threw" THEN [tk EXCEPT !.pc = "threw"]
                   ELSE AfterDesign(tk, fResult)
       IN /\ tk' = next
          /\ IF next.pc = "design"
             THEN FigmaEnter(next.figmaUrls[next.idx])
             ELSE FigmaLeave /\ UNCHANGED <<remote, retryVars, diskVars>>
    /\ UNCHANGED <<jira, attachFiles, toolVars>>

TicketIdle ==
    /\ tk = TicketIdleState
    /\ attachFiles = {}
    /\ jira = [k \in {PrimaryKey} |-> NoIssue]

---------------------------------------------------------------------------
(* fetchFigmaDesign called on its own *)

StrAB == <<"A", "B">>
StrName == <<"N">>

\* https://figma.com/design/AB/N?node-id=1-2, https://figma.com/file/AB,
\* https://figma.com/community/AB, https://figma.com/proto and the href
\* figma.com/file/AB, which has no scheme
Urls ==
    {MkUrl(TRUE, <<<<>>, StrDesign, StrAB, StrName>>, Param(<<"1", "-", "2">>)),
     MkUrl(TRUE, <<<<>>, StrFile, StrAB>>, NoParam),
     MkUrl(TRUE, <<<<>>, <<"c">>, StrAB>>, NoParam),
     MkUrl(TRUE, <<<<>>, StrProto>>, NoParam),
     MkUrl(FALSE, <<>>, NoParam)}

\* the answers of the design backend in the runs of the export pipeline
PipelineResponses ==
    {[status |-> s, retryAfter |-> NoHeader] : s \in {200, 403, 404, 500}}
        \cup {[status |-> 429, retryAfter |-> NumHeader(d)] : d \in {5, 7200}}

\* the exports directory as earlier runs may have left it
ExportDirs ==
    {{}, {ExportFileName(StrAB, <<"1", ":", "2">>)}, {ExportFileName(StrAB, ChildId(1))}}

InitFigma ==
    /\ remote = [responses |-> PipelineResponses,
                 nodeBodies |-> NodeBodies(MaxChildren) \cup WideBodies]
    /\ TicketIdle
    /\ ToolIdle
    /\ RetryIdle
    /\ figmaConfig \in BOOLEAN
    /\ exportFiles \in ExportDirs
    /\ exportsDir = (exportFiles # {})
    /\ FigmaIdle

FigmaCall ==
    /\ pcF = "idle"
    /\ tk.pc = "idle"
    /\ \E url \in Urls : FigmaEnter(url)
    /\ UNCHANGED <<ticketVars, toolVars>>

NextFigma ==
    \/ FigmaCall
    \/ RetryRespond
    \/ RetryTransportError
    \/ RetryWake
    \/ FigmaOnFileInfo
    \/ FigmaOnNodeInfo
    \/ FigmaOnImagesBatch
    \/ FigmaOnChildDownload
    \/ FigmaOnImagesWhole
    \/ FigmaOnWholeDownload

SpecFigma == InitFigma /\ [][NextFigma]_vars

---------------------------------------------------------------------------
(* figmaFetchWithRetry called on its own, with any limits *)

InitRetry ==
    /\ remote = [responses |-> Responses, nodeBodies |-> {}]
    /\ TicketIdle
    /\ ToolIdle
    /\ DiskFresh
    /\ FigmaIdle
    /\ pcR = "request"
    /\ rMaxRetries \in 0..MaxRetriesArg
    /\ rMaxWaitSec \in {5, DefaultMaxWaitSec, 3601}
    /\ attempts = 0
    /\ rTrace = <<ReqEvent>>
    /\ rResult = NoResult

NextRetry ==
    \/ RetryRespond
    \/ RetryTransportError
    \/ RetryWake

SpecRetry == InitRetry /\ [][NextRetry]_vars

\* each request is answered and each timer fires
FairSpecRetry == SpecRetry /\ WF_vars(NextRetry)


---------------------------------------------------------------------------
(* getTicket called on tickets of a small backend *)

MaxWideLinks == 6

\* https://figma.com/design/AB/N?node-id=1-2 and https://figma.com/file/AB,
\* the href figma.com/file/AB and https://example.com
DesignUrl == MkUrl(TRUE, <<<<>>, StrDesign, StrAB, StrName>>, Param(<<"1", "-", "2">>))
FileUrl == MkUrl(TRUE, <<<<>>, StrFile, StrAB>>, NoParam)
BareHref == MkUrl(FALSE, <<>>, NoParam)
OtherUrl == [MkUrl(TRUE, <<>>, NoParam) EXCEPT !.figma = FALSE]

\* the backend with `primary` as ticket A-1 and three other tickets: B-2
\* mentions D-4, A-1 and (in a comment) C-3; D-4 mentions B-2 and carries a
\* design URL in its description
Backend(primary) ==
    [k \in {PrimaryKey, "B-2", "C-3", "D-4"}
              \cup {"R-" \o ToString(i) : i \in 1..(2 * MaxWideLinks)} |->
        CASE k = PrimaryKey -> primary
          [] k = "B-2" -> MkIssue(NoKey, <<>>, <<>>,
                                  MkDoc(<<KeyTok("D-4"), KeyTok(PrimaryKey)>>, <<>>),
                                  <<MkDoc(<<BrowseTok("C-3")>>, <<FileUrl>>)>>, <<>>)
          [] k \in {"C-3"} \cup {"R-" \o ToString(i) : i \in 1..(2 * MaxWideLinks)} -> NoIssue
          [] k = "D-4" -> MkIssue(NoKey, <<>>, <<>>,
                                  MkDoc(<<KeyTok("B-2"), UrlTok(DesignUrl)>>, <<>>),
                                  <<>>, <<>>)]

\* tickets related to others by parent, subtask, link and mention
RelatedTickets ==
    {MkIssue(parent, subtasks, links, description, comments, <<>>) :
        parent \in {NoKey, "B-2"},
        subtasks \in {<<>>, <<"C-3">>},
        links \in {<<>>, <<MkLink("B-2", NoKey)>>, <<MkLink("C-3", "B-2")>>,
                   <<MkLink("D-4", NoKey), MkLink(NoKey, "D-4")>>},
        description \in
            {EmptyDoc,
             MkDoc(<<WordTok, KeyTok("D-4")>>, <<>>),
             MkDoc(<<KeyTok("B-2"), BrowseTok("D-4"), KeyTok(PrimaryKey)>>, <<OtherUrl>>)},
        comments \in {<<>>, <<MkDoc(<<KeyTok("C-3")>>, <<>>)>>}}

\* tickets with n linked items L-1 .. L-n, n = 0 .. 2 * MaxWideLinks: each link
\* has an outward and an inward issue, but for the last link when n is odd
WideTickets ==
    {MkIssue(NoKey, <<>>,
             [i \in 1..((n + 1) \div 2) |->
                 MkLink("L-" \o ToString(2 * i - 1),
                        IF 2 * i <= n THEN "L-" \o ToString(2 * i) ELSE NoKey)],
             EmptyDoc, <<>>, <<>>) : n \in 0..(2 * MaxWideLinks)}

\* tickets with design references, in the text and as embedded links
DesignTickets ==
    {MkIssue(parent, <<>>, <<>>, description, <<>>, <<>>) :
        parent \in {NoKey, "B-2"},
        description \in
            {MkDoc(<<UrlTok(DesignUrl), WordTok>>, <<DesignUrl>>),
             MkDoc(<<WordTok>>, <<OtherUrl, FileUrl>>),
             MkDoc(<<UrlTok(FileUrl)>>, <<BareHref>>),
             MkDoc(<<KeyTok("D-4")>>, <<>>),
             MkDoc(<<KeyTok("D-4"), UrlTok(DesignUrl)>>, <<>>),
             \* .../design/AB/N?node-id=1-2 and .../file/AB/M?node-id=1-2
             MkDoc(<<UrlTok(DesignUrl),
                     UrlTok(MkUrl(TRUE, <<<<>>, StrFile, StrAB, <<"M">>>>,
                                  Param(<<"1", "-", "2">>)))>>, <<>>)}}

\* tickets that are their own parent or linked to themselves, and mention B-2,
\* which mentions them
CyclicTickets ==
    {MkIssue(parent, <<>>, links, description, <<>>, <<>>) :
        parent \in {NoKey, PrimaryKey},
        links \in {<<>>, <<MkLink(PrimaryKey, NoKey)>>, <<MkLink("B-2", PrimaryKey)>>},
        description \in {EmptyDoc, MkDoc(<<KeyTok("B-2"), KeyTok(PrimaryKey)>>, <<>>)}}

\* tickets whose description mentions R-1 .. R-n, n = 2 * MaxWideLinks - 1 and
\* 2 * MaxWideLinks, R-1 twice, without and with a link to R-2
MentionTickets ==
    {MkIssue(NoKey, <<>>, links,
             MkDoc([i \in 1..(n + 1) |->
                       KeyTok("R-" \o ToString(IF i > n THEN 1 ELSE i))], <<>>),
             <<>>, <<>>) :
        n \in {2 * MaxWideLinks - 1, 2 * MaxWideLinks},
        links \in {<<>>, <<MkLink("R-2", NoKey)>>}}

\* tickets with attachments: an image, a document and an image, or two images
\* of the same name
AttachTickets ==
    {MkIssue(NoKey, <<>>, <<>>, EmptyDoc, <<>>, atts) :
        atts \in {<<MkAttachment(TRUE, "f.png")>>,
                  <<MkAttachment(FALSE, "d.pdf"), MkAttachment(TRUE, "f.png")>>,
                  <<MkAttachment(TRUE, "f.png"), MkAttachment(TRUE, "f.png")>>}}

\* the answers of the design backend in the runs of getTicket
TicketRemote ==
    [responses |->
        {[status |-> s, retryAfter |-> NoHeader] : s \in {200, 404}}
            \cup {[status |-> 429, retryAfter |-> NumHeader(5)]},
     nodeBodies |->
        {[valid |-> TRUE, hasNode |-> FALSE, doc |-> NoDoc],
         [valid |-> TRUE, hasNode |-> TRUE,
          doc |-> [name |-> DocName, bb |-> NoBox, hasChildren |-> FALSE, children |-> <<>>]],
         [valid |-> TRUE, hasNode |-> TRUE,
          doc |-> [name |-> DocName, bb |-> Box(1501, 100), hasChildren |-> TRUE,
                   children |-> <<MkChild(1, [type |-> "FRAME", bb |-> Box(100, 100)])>>]]}]

InitTicket ==
    /\ remote = TicketRemote
    /\ RetryIdle
    /\ FigmaIdle
    /\ exportsDir = FALSE
    /\ exportFiles = {}
    /\ tk = TicketIdleState
    /\ ToolIdle
    /\ \/ /\ jira \in {Backend(t) : t \in RelatedTickets \cup WideTickets
                                              \cup CyclicTickets \cup MentionTickets}
          /\ figmaConfig = FALSE
          /\ attachFiles = {}
       \/ /\ jira \in {Backend(t) : t \in DesignTickets}
          /\ figmaConfig \in BOOLEAN
          /\ attachFiles = {}
       \/ /\ jira \in {Backend(t) : t \in AttachTickets}
          /\ figmaConfig = FALSE
          /\ attachFiles \in {{}, {AttachmentPath(PrimaryKey, "f.png")}}

NextTicket ==
    \/ TicketCall
    \/ TicketOnPrimary
    \/ TicketOnParent
    \/ TicketOnAttachment
    \/ TicketOnSubtask
    \/ TicketOnLinked
    \/ TicketOnReferenced
    \/ TicketOnDesign
    \/ RetryRespond
    \/ RetryTransportError
    \/ RetryWake
    \/ FigmaOnFileInfo
    \/ FigmaOnNodeInfo
    \/ FigmaOnImagesBatch
    \/ FigmaOnChildDownload
    \/ FigmaOnImagesWhole
    \/ FigmaOnWholeDownload

SpecTicket == InitTicket /\ [][NextTicket]_vars

---------------------------------------------------------------------------
(* What a run of getTicket did, read off its calls and its report *)

IsJiraCall(c) == c[1] = "jira"
JiraCalls == SelectSeq(tk.calls, IsJiraCall)
StageKeys(stage) ==
    LET cs == SelectSeq(tk.calls, LAMBDA c : IsJiraCall(c) /\ c[2] = stage)
    IN [i \in 1..Len(cs) |-> cs[i][3]]

\* the primary fetch has succeeded
PrimaryFetched == tk.output # <<>>
\* the run has left the linked-issue stage behind
PastLinked ==
    \/ tk.pc \in {"referenced", "design", "return"}
    \/ tk.pc = "threw" /\ PrimaryFetched

\* C1: within one run of getTicket no ticket key is fetched twice, counting the
\* primary fetch and the parent, subtask, linked-issue and referenced-ticket
\* fetches together, also when the key is reachable by several routes.
C1_NoKeyFetchedTwice ==
    \A i, j \in 1..Len(JiraCalls) : i # j => JiraCalls[i][3] # JiraCalls[j][3]

\* the linked items of the ticket in link order, and the overflow notes written
TicketLinkedItems == LinkedIssues(jira[PrimaryKey].issuelinks)
OverflowNotes == SelectSeq(tk.output, LAMBDA o : o[1] = "moreLinked")

\* C2: with n linked items (the outward and the inward issue of a link counted
\* separately) the linked-issue stage fetches the first min(n, 10) of them in
\* link order and no other; once the stage is over the report has the note
\* "n - 10 more linked issues" exactly when n > 10.
C2_LinkedCap ==
    LET n == Len(TicketLinkedItems)
        cap == IF n < 10 THEN n ELSE 10
        fetched == StageKeys("linked")
    IN /\ Len(fetched) <= cap
       /\ fetched = SubSeq(TicketLinkedItems, 1, Len(fetched))
       /\ IF PastLinked
          THEN /\ Len(fetched) = cap
               /\ OverflowNotes = IF n > 10 THEN << <<"moreLinked", n - 10>> >> ELSE <<>>
          ELSE OverflowNotes = <<>>

\* a returned run on a ticket with 11 linked items: 10 fetches and "1 more"
C2_Witness ==
    /\ tk.pc = "return"
    /\ Len(TicketLinkedItems) = 11
    /\ Len(StageKeys("linked")) = 10
    /\ OverflowNotes = << <<"moreLinked", 1>> >>

---------------------------------------------------------------------------
(* What a run of figmaFetchWithRetry did, read off its trace *)

IsRespEvent(e) == e[1] = "resp"
IsSleepEvent(e) == e[1] = "sleep"
IsReqEvent(e) == e[1] = "req"

RespEvents == SelectSeq(rTrace, IsRespEvent)
SleepEvents == SelectSeq(rTrace, IsSleepEvent)
NumRequests == Len(SelectSeq(rTrace, IsReqEvent))
NumSleeps == Len(SleepEvents)
LastEvent == rTrace[Len(rTrace)]

\* a 429 whose retry-after is a number d with 1 <= d <= cap
IsShort429(e, cap) ==
    /\ e[2] = 429
    /\ e[3].kind = "num"
    /\ e[3].n >= 1
    /\ e[3].n <= cap

\* a 429 that asks for a wait of at most cap seconds, the default included
IsWithinCap429(e, cap) ==
    /\ e[2] = 429
    /\ (IF e[3].kind = "num" /\ e[3].n # 0 THEN e[3].n ELSE 60) <= cap

\* the trace that answers the responses rs one by one, up to the last response:
\* a request before each response, and between a 429 and the next request one
\* wait of 1000 * d milliseconds, d the retry-after of that 429
RECURSIVE AlternatingTrace(_)
AlternatingTrace(rs) ==
    IF rs = <<>> THEN <<>>
    ELSE IF Len(rs) = 1 THEN <<ReqEvent, rs[1]>>
    ELSE LET front == SubSeq(rs, 1, Len(rs) - 1)
             prev == rs[Len(rs) - 1]
         IN AlternatingTrace(front)
                \o <<SleepEvent(1000 * prev[3].n), ReqEvent, rs[Len(rs)]>>

\* C3: as long as the remote has answered 429 with a retry-after d, 1 <= d <=
\* maxWaitSec, k <= maxRetries times, the call has not given up: it waits
\* exactly 1000*d ms after each 429 and then asks again; and when a 2xx follows the k
\* 429s the call returns that response, after exactly k+1 requests and k waits,
\* each wait between the 429 it answers and the next request.
C3_RetryThenSuccess ==
    LET rs == RespEvents
        n == Len(rs)
        k == IF n > 0 /\ IsOk(rs[n][2]) THEN n - 1 ELSE n
    IN (/\ k <= rMaxRetries
        /\ \A i \in 1..k : IsShort429(rs[i], rMaxWaitSec)
        /\ pcR # "threw")
       => /\ (k = n) => pcR \in {"request", "sleep"}
          /\ (k < n) => /\ pcR = "return"
                        /\ rResult = [rateLimited |-> FALSE, status |-> rs[n][2],
                                      retryAfter |-> NoWaitTime]
                        /\ NumRequests = k + 1
                        /\ NumSleeps = k
          /\ pcR \in {"sleep", "return"} => rTrace = AlternatingTrace(rs)
          /\ pcR = "request" =>
                rTrace = (IF n = 0 THEN <<ReqEvent>>
                          ELSE AlternatingTrace(rs)
                                  \o <<SleepEvent(1000 * rs[n][3].n), ReqEvent>>)

\* three 429 with retry-after 5, then 200, with maxRetries = 3
C3_Witness ==
    /\ pcR = "return"
    /\ rMaxRetries = 3
    /\ rResult.status = 200
    /\ SleepEvents = <<SleepEvent(5000), SleepEvent(5000), SleepEvent(5000)>>
    /\ NumRequests = 4

\* C4: a 429 whose retry-after exceeds maxWaitSec ends the call at once with the
\* RateLimited result: nothing follows that response in the trace (no wait, no
\* request), and the estimate is in hours (the duration rounded to hours) when the
\* duration exceeds 3600 s and is the duration in seconds otherwise.
C4_TooLongWaitGivesUp ==
    LET e == LastEvent
        sec == IF e[3].kind = "num" /\ e[3].n # 0 THEN e[3].n ELSE 60
    IN (IsRespEvent(e) /\ e[2] = 429 /\ sec > rMaxWaitSec)
       => /\ pcR = "return"
          /\ rResult.rateLimited
          /\ NumSleeps = Len(RespEvents) - 1
          /\ NumRequests = Len(RespEvents)
          /\ IF sec > 3600
             THEN /\ rResult.retryAfter.unit = "hours (monthly limit reached)"
                  /\ 2 * rResult.retryAfter.n * 3600 <= 2 * sec + 3600
                  /\ 2 * rResult.retryAfter.n * 3600 > 2 * sec - 3600
             ELSE /\ rResult.retryAfter.unit = "seconds"
                  /\ rResult.retryAfter.n = sec

\* retry-after 7200 with maxWaitSec = 30: RateLimited on the first response, "2 hours"
C4_Witness ==
    /\ pcR = "return"
    /\ rMaxWaitSec = 30
    /\ rTrace = <<ReqEvent, RespEvent([status |-> 429, retryAfter |-> NumHeader(7200)])>>
    /\ rResult.rateLimited
    /\ rResult.retryAfter = [n |-> 2, unit |-> "hours (monthly limit reached)"]

\* the state part of C5
C5_Bounded ==
    /\ NumSleeps <= rMaxRetries
    /\ NumRequests <= rMaxRetries + 1
    /\ pcR = "return" =>
          LET e == LastEvent IN
          /\ IsRespEvent(e)
          /\ \/ IsOk(e[2]) /\ ~rResult.rateLimited /\ rResult.status = e[2]
             \/ ~IsOk(e[2]) /\ e[2] # 429 /\ ~rResult.rateLimited /\ rResult.status = e[2]
             \/ e[2] = 429 /\ rResult.rateLimited
    /\ (/\ Len(RespEvents) = rMaxRetries + 1
        /\ \A i \in 1..Len(RespEvents) : IsWithinCap429(RespEvents[i], rMaxWaitSec))
       => pcR = "return" /\ rResult.rateLimited /\ NumSleeps = rMaxRetries

\* C5: every call ends (each request being answered): it makes at most maxRetries
\* waits and maxRetries+1 requests; a remote that answers 429 within maxWaitSec
\* every time gets RateLimited on response maxRetries+1; and a call returns only on
\* a 2xx response, on a non-429 response or with RateLimited.
C5_Terminates == [](C5_Bounded) /\ <>(pcR \in {"return", "threw"})

\* the remote answered 429 within the cap four times, maxRetries = 3
C5_Witness ==
    /\ pcR = "return"
    /\ rMaxRetries = 3
    /\ rResult.rateLimited
    /\ NumSleeps = 3
    /\ NumRequests = 4
    /\ \A i \in 1..Len(RespEvents) : IsWithinCap429(RespEvents[i], rMaxWaitSec)

\* C6: a response that is neither 2xx nor 429 ends the call with that response:
\* nothing follows it in the trace, and the waits made are those of the 429s
\* before it, one each.
C6_OtherStatusNotRetried ==
    LET e == LastEvent IN
    (IsRespEvent(e) /\ ~IsOk(e[2]) /\ e[2] # 429)
       => /\ pcR = "return"
          /\ rResult = [rateLimited |-> FALSE, status |-> e[2], retryAfter |-> NoWaitTime]
          /\ NumSleeps = Len(RespEvents) - 1
          /\ NumRequests = Len(RespEvents)

\* two 429s were waited for, then a 500 came back
C6_Witness ==
    /\ pcR = "return"
    /\ rResult.status = 500
    /\ NumSleeps = 2

---------------------------------------------------------------------------
(* What a run of fetchFigmaDesign did, read off its calls *)

IsImagesCall(c) == c[1] = "images"
IsDownloadCall(c) == c[1] = "download"
ImagesCalls == SelectSeq(fCalls, IsImagesCall)
DownloadCalls == SelectSeq(fCalls, IsDownloadCall)

\* a render of the node itself, and a render of children of the node
IsWholeRender(c) == IsImagesCall(c) /\ c[3] = <<fParsed.nodeId>>
IsChildRender(c) ==
    /\ IsImagesCall(c)
    /\ Len(c[3]) >= 1
    /\ \A i \in 1..Len(c[3]) :
          \E j \in 1..Len(fDoc.children) : fDoc.children[j].id = c[3][i]

NodeIsLarge == fDoc.bb.present /\ (fDoc.bb.width > 1500 \/ fDoc.bb.height > 2000)
QualifyingChildren ==
    {j \in 1..Len(fDoc.children) :
        /\ fDoc.children[j].type \in {"FRAME", "COMPONENT", "GROUP", "SECTION"}
        /\ fDoc.children[j].bb.present
        /\ fDoc.children[j].bb.width >= 100
        /\ fDoc.children[j].bb.height >= 100}

\* C7: once fetchFigmaDesign has the node's metadata it issues exactly one render
\* call: the batched render of children when the node is large (width > 1500 or
\* height > 2000) and has a qualifying child, and the render of the node itself
\* in every other case; never both. Without the metadata it issues none.
C7_ExportModeFromMetadata ==
    IF fDoc = NoDoc
    THEN ImagesCalls = <<>>
    ELSE /\ Len(ImagesCalls) = 1
         /\ IF NodeIsLarge /\ QualifyingChildren # {}
            THEN IsChildRender(ImagesCalls[1]) /\ ~IsWholeRender(ImagesCalls[1])
            ELSE IsWholeRender(ImagesCalls[1]) /\ ~IsChildRender(ImagesCalls[1])

\* a large node with two children, one of them qualifying, exported child by child
C7_Witness ==
    /\ pcF = "return"
    /\ NodeIsLarge
    /\ Len(fDoc.children) = 2
    /\ Cardinality(QualifyingChildren) = 1
    /\ IsChildRender(ImagesCalls[1])
    /\ Len(fResult.images) = 1

FigmaErrorCodes ==
    {"NotConfigured", "InvalidUrl", "RateLimited", "AccessDenied", "NotFound",
     "ApiError", "FetchFailed"}

\* C8: fetchFigmaDesign never throws: whatever the reference string and whatever
\* its remote calls answer, it ends by returning a result object or one of the
\* seven error objects.
C8_NeverThrows ==
    /\ pcF # "threw"
    /\ pcF = "return" =>
          \/ fResult.error.code \in FigmaErrorCodes
          \/ fResult.error = NoError

\* C9: no image is downloaded and no export file is written when the file named
\* after (fileKey, sanitized node id) is already in the exports directory.
C9_CachedNotRefetched ==
    [][/\ (fCalls' # fCalls /\ Len(fCalls') > 0 /\ IsDownloadCall(fCalls'[Len(fCalls')]))
          => ExportFileName(fParsed'.fileKey, fCalls'[Len(fCalls')][2]) \notin exportFiles
       /\ (fWrites' # fWrites /\ Len(fWrites') > 0)
          => fWrites'[Len(fWrites')] \notin exportFiles]_vars

\* C10: a run of getTicket whose primary fetch succeeded and in which other
\* ticket fetches or attachment downloads failed still fetches the parent, every
\* subtask, the first 10 linked items and the first 10 referenced tickets, and
\* ends by returning a report.
C10_FaultIsolation ==
    (tk.pc \in {"return", "threw"} /\ PrimaryFetched /\ tk.failures # <<>>) =>
        /\ tk.pc = "return"
        /\ tk.fields.parent # NoKey => StageKeys("parent") = <<tk.fields.parent>>
        /\ StageKeys("subtask") = tk.fields.subtasks
        /\ StageKeys("linked") =
              SubSeq(TicketLinkedItems, 1,
                     IF Len(TicketLinkedItems) < 10 THEN Len(TicketLinkedItems) ELSE 10)
        /\ StageKeys("referenced") =
              SubSeq(tk.toFetch, 1, IF Len(tk.toFetch) < 10 THEN Len(tk.toFetch) ELSE 10)

\* C11: a call of getTicket fails only when the fetch of the primary ticket
\* failed: no other failed call and no design reference that cannot be parsed
\* makes it end with an exception.
C11_OnlyPrimaryFatal ==
    tk.pc = "threw" => tk.failures = <<JiraCall("primary", tk.issueKey)>>

\* C12: for every failed fetch of the parent, a subtask, a linked item or a
\* referenced ticket the report has a note with the key of that ticket and the
\* error message.
C12_NoSilentDrops ==
    \A i \in 1..Len(tk.failures) :
        (IsJiraCall(tk.failures[i]) /\ tk.failures[i][2] # "primary") =>
            \E j \in 1..Len(tk.output) :
                /\ Len(tk.output[j]) = 3
                /\ tk.output[j][2] = tk.failures[i][3]
                /\ tk.output[j][3] = ErrorMessage

\* the design references getTicket passed to fetchFigmaDesign, in order
ExportedUrls ==
    LET cs == SelectSeq(tk.calls, LAMBDA c : c[1] = "figma")
    IN [i \in 1..Len(cs) |-> cs[i][2]]

\* C13: within one run of getTicket no two calls of fetchFigmaDesign are for
\* the same (fileKey, nodeId), also when the URL strings differ.
C13_ExportOncePerRef ==
    \A i, j \in 1..Len(ExportedUrls) :
        (/\ i # j
         /\ ~UrlThrows(ExportedUrls[i]) /\ ~UrlThrows(ExportedUrls[j])
         /\ ParseFigmaUrl(ExportedUrls[i]).ok)
            => ParseFigmaUrl(ExportedUrls[i]) # ParseFigmaUrl(ExportedUrls[j])

---------------------------------------------------------------------------
(* The synchronous functions, each called on its own *)

\* the function is called with `arg` as its arguments
Calling(f, arg) == [f |-> f, arg |-> arg, done |-> FALSE, res |-> <<>>]

\* the call returns `res`
Returns(res) ==
    /\ ~fcall.done
    /\ fcall' = [fcall EXCEPT !.done = TRUE, !.res = res]
    /\ UNCHANGED <<remote, retryVars, diskVars, figmaVars, ticketVars, up, tr, hd, mn>>

\* node ids as the design provider assigns them: n:m, and for a node inside an
\* instance I followed by the ids on the way to it, separated by semicolons
ProviderNodeIds ==
    LET nums == {<<"1">>, <<"2">>, <<"1", "2">>}
        plain == {n \o <<":">> \o m : n \in nums, m \in nums}
        short == {n \o <<":">> \o m : n \in {<<"1">>, <<"1", "2">>}, m \in {<<"2">>, <<"1", "2">>}}
    IN plain \cup {<<"I">> \o a \o <<";">> \o b : a \in short, b \in short}

\* two design references, each a file key and a node id
ExportRefPairs ==
    LET refs == {[fileKey |-> k, id |-> id] :
                    k \in {<<"A">>, <<"A", "1">>}, id \in ProviderNodeIds}
    IN refs \X refs

\* the file names of lines 527-531 and 559-560 for two references
CallExportFileName ==
    /\ fcall.f = "exportFileName"
    /\ Returns(<<ExportFileName(fcall.arg[1].fileKey, fcall.arg[1].id),
                 ExportFileName(fcall.arg[2].fileKey, fcall.arg[2].id)>>)

\* URLs https://figma.com/<segments>[?node-id=<value>]; a path segment is empty,
\* a keyword, or a key
MaxSegments == 4
ParseInputs ==
    LET segs == {<<>>, StrFile, StrDesign, <<"c">>, StrAB}
        paths == UNION {[1..n -> segs] : n \in 0..MaxSegments}
        params == {NoParam, Param(<<>>), Param(<<"1", "-", "2">>),
                   Param(<<"1", "-", "2", "-", "3">>)}
    IN {MkUrl(TRUE, <<<<>>>> \o p, q) : p \in paths, q \in params}

CallParseFigmaUrl ==
    /\ fcall.f = "parseFigmaUrl"
    /\ Returns(ParseFigmaUrl(fcall.arg))

\* the words of a text for findJiraTicketKeys: a word is a string, alone or at
\* the end of a browse URL (https://host/browse/<word>)
MaxWords == 2

UpperCase ==
    {"A", "B", "C", "D", "E", "F", "G", "H", "I", "J", "K", "L", "M",
     "N", "O", "P", "Q", "R", "S", "T", "U", "V", "W", "X", "Y", "Z"}

\* the whole word matches [A-Z][A-Z0-9]+-\d+ of lines 320 and 322
KeyPatternMatches(w) ==
    \E dash \in 3..(Len(w) - 1) :
        /\ w[dash] = "-"
        /\ w[1] \in UpperCase
        /\ \A i \in 2..(dash - 1) : w[i] \in UpperCase \cup {Digits[d] : d \in 1..10}
        /\ \A i \in (dash + 1)..Len(w) : w[i] \in {Digits[d] : d \in 1..10}

\* the text as the two patterns see it
Lex(words) ==
    [i \in 1..Len(words) |->
        IF KeyPatternMatches(words[i].s)
        THEN IF words[i].browse THEN BrowseTok(words[i].s) ELSE KeyTok(words[i].s)
        ELSE WordTok]

KeyInputs ==
    LET strs == {<<"A", "B", "-", "1">>, <<"a", "b", "-", "1">>, <<"A", "b", "-", "1">>,
                 <<"A", "B", "-", "2">>, <<"A", "-", "1">>, <<"A", "B", "1">>}
        words == {[browse |-> b, s |-> w] : b \in BOOLEAN, w \in strs}
    IN {[text |-> t, currentKey |-> k] :
            t \in UNION {[1..n -> words] : n \in 0..MaxWords},
            k \in {<<"A", "B", "-", "1">>, <<"a", "b", "-", "1">>, <<"A", "B", "-", "2">>}}

CallFindJiraTicketKeys ==
    /\ fcall.f = "findJiraTicketKeys"
    /\ Returns(FindJiraTicketKeys(Lex(fcall.arg.text), fcall.arg.currentKey))

---------------------------------------------------------------------------
(* extractText over document trees *)

\* a node of a document: its type, its text (attrs.text for a mention), the
\* hrefs of its link marks, its attrs.url and its content
Node(type, text, hrefs, url, content) ==
    [type |-> type, text |-> text, hrefs |-> hrefs, url |-> url, content |-> content]
TextNode(text) == Node("text", text, <<>>, "", <<>>)
HardBreak == Node("hardBreak", <<>>, <<>>, "", <<>>)
Block(type, content) == Node(type, <<>>, <<>>, "", content)

CardTypes == {"inlineCard", "blockCard", "embedCard"}

\* the for loop of lines 136-173 over the nodes from position i on, with the
\* text and the urls collected so far in acc
RECURSIVE ExtractNodes(_, _, _)
ExtractNodes(nodes, i, acc) ==
    IF i > Len(nodes) THEN acc
    ELSE LET node == nodes[i]
             inner == ExtractNodes(node.content, 1, [text |-> <<>>, urls |-> acc.urls])
         IN ExtractNodes(nodes, i + 1,
              CASE node.type = "text" ->
                     [text |-> acc.text \o node.text, urls |-> acc.urls \o node.hrefs]
                [] node.type = "paragraph" ->
                     [text |-> acc.text \o inner.text \o <<"\n">>, urls |-> inner.urls]
                [] node.type = "hardBreak" ->
                     [text |-> acc.text \o <<"\n">>, urls |-> acc.urls]
                [] node.type = "mention" ->
                     [text |-> acc.text \o <<"@">>
                                 \o (IF node.text = <<>> THEN <<"user">> ELSE node.text),
                      urls |-> acc.urls]
                [] node.type \in {"mediaGroup", "mediaSingle"} ->
                     [text |-> acc.text \o <<"[image attachment]", "\n">>, urls |-> acc.urls]
                [] node.type \in CardTypes ->
                     IF node.url # ""
                     THEN [text |-> acc.text \o <<node.url, "\n">>,
                           urls |-> Append(acc.urls, node.url)]
                     ELSE acc
                [] OTHER ->
                     [text |-> acc.text \o inner.text, urls |-> inner.urls])

\* extractText(content, []) for a document or a node with content
ExtractText(content) == ExtractNodes(content.content, 1, [text |-> <<>>, urls |-> <<>>])

\* documents of depth up to three: inline nodes; blocks of at most one inline
\* node; blocks of one such block; a document of up to MaxDocNodes of these
MaxDocNodes == 2

Documents ==
    LET inline == {TextNode(<<"a">>), Node("text", <<"b">>, <<"u1">>, "", <<>>),
                   Node("inlineCard", <<>>, <<>>, "u2", <<>>), HardBreak}
        low == {Block(t, c) : t \in {"paragraph", "caption"},
                              c \in {<<>>} \cup {<<n>> : n \in inline}}
        high == {Block(t, <<c>>) : t \in {"panel", "mediaSingle"}, c \in low}
    IN {Block("doc", c) :
           c \in UNION {[1..n -> inline \cup low \cup high] : n \in 0..MaxDocNodes}}

CallExtractText ==
    /\ fcall.f = "extractText"
    /\ Returns(ExtractText(fcall.arg))

---------------------------------------------------------------------------
(* buildCommentADF *)

MaxTextLen == 5

IsSpace(c) == c \in {" ", "\n"}

\* str.trimStart() and str.trim()
RECURSIVE TrimStart(_)
TrimStart(str) ==
    IF str # <<>> /\ IsSpace(Head(str)) THEN TrimStart(Tail(str)) ELSE str
RECURSIVE Trim(_)
Trim(str) ==
    LET t == TrimStart(str)
    IN IF t # <<>> /\ IsSpace(t[Len(t)]) THEN Trim(SubSeq(t, 1, Len(t) - 1)) ELSE t

\* str.split("\n") when minRun = 1 and str.split(/\n\n+/) when minRun = 2: the
\* pieces between the runs of at least minRun line feeds (a run of the pattern
\* \n\n+ is a maximal one; "\n" matches one line feed at a time)
RECURSIVE SplitAt(_, _)
SplitAt(str, minRun) ==
    LET starts == {i \in 1..(Len(str) - minRun + 1) :
                      \A k \in 0..(minRun - 1) : str[i + k] = "\n"}
    IN IF starts = {} THEN <<str>>
       ELSE LET i == CHOOSE x \in starts : \A y \in starts : x <= y
                after == {j \in (i + minRun)..Len(str) : str[j] # "\n"}
                j == IF minRun = 1 THEN i + 1
                     ELSE IF after = {} THEN Len(str) + 1
                     ELSE CHOOSE x \in after : \A y \in after : x <= y
            IN <<SubSeq(str, 1, i - 1)>> \o SplitAt(SubSeq(str, j, Len(str)), minRun)

\* parseInlineFormatting(text) for a text without "`", "*" and "@", in which the
\* pattern of line 228 has no match: the text itself, as one text node
ParseInlineFormatting(text) ==
    LET nodes == IF Len(text) > 0 THEN <<TextNode(text)>> ELSE <<>>
    IN IF Len(nodes) > 0 THEN nodes ELSE <<TextNode(text)>>

\* line.trimStart().startsWith("- ")
IsBulletLine(line) ==
    LET t == TrimStart(line) IN Len(t) >= 2 /\ t[1] = "-" /\ t[2] = " "

\* lines 297-302: the lines of a paragraph, a hardBreak before each but the first
RECURSIVE ParagraphContentNoBreaks(_)
ParagraphContentNoBreaks(lines) ==
    IF lines = <<>> THEN <<>>
    ELSE ParagraphContentNoBreaks(SubSeq(lines, 1, Len(lines) - 1))
            \o ParseInlineFormatting(lines[Len(lines)])
RECURSIVE ParagraphContent(_)
ParagraphContent(lines) ==
    IF lines = <<>> THEN <<>>
    ELSE ParagraphContent(SubSeq(lines, 1, Len(lines) - 1))
            \o (IF Len(lines) > 1 THEN <<HardBreak>> ELSE <<>>)
            \o ParseInlineFormatting(lines[Len(lines)])

\* lines 279-305 for one block
BlockNodes(block) ==
    LET trimmed == Trim(block)
        lines == SplitAt(trimmed, 1)
    IN IF trimmed = <<>> THEN <<>>
       ELSE IF \A i \in 1..Len(lines) : IsBulletLine(lines[i])
       THEN <<Block("bulletList",
                    [i \in 1..Len(lines) |->
                        Block("listItem",
                              <<Block("paragraph",
                                      ParseInlineFormatting(
                                          SubSeq(TrimStart(lines[i]), 3,
                                                 Len(TrimStart(lines[i])))))>>)])>>
       ELSE <<Block("paragraph", ParagraphContent(lines))>>

\* buildCommentADF(text): lines 272-311
BuildCommentADF(text) ==
    LET blocks == SplitAt(text, 2)
        RECURSIVE Content(_)
        Content(i) == IF i > Len(blocks) THEN <<>> ELSE BlockNodes(blocks[i]) \o Content(i + 1)
    IN IF Len(Content(1)) > 0 THEN Content(1)
       ELSE <<Block("paragraph", <<TextNode(text)>>)>>

\* the texts of up to MaxTextLen characters over a letter, the space, the line
\* feed and the hyphen
PlainTexts == UNION {[1..n -> {"a", " ", "\n", "-"}] : n \in 0..MaxTextLen}

\* a comment is built from the text and decoded again
CallRoundTrip ==
    /\ fcall.f = "roundTrip"
    /\ Returns(ExtractText(Block("doc", BuildCommentADF(fcall.arg))).text)

\* a comment is built from the text (a text without "@" needs no user lookup)
CallBuildCommentADF ==
    /\ fcall.f = "buildCommentADF"
    /\ Returns(BuildCommentADF(fcall.arg))

---------------------------------------------------------------------------
(* Each function called once on one of its inputs *)

InitFunctions ==
    /\ remote = [responses |-> {}, nodeBodies |-> {}]
    /\ RetryIdle
    /\ DiskFresh
    /\ FigmaIdle
    /\ TicketIdle
    /\ up = UpdateIdleState
    /\ tr = TransitionIdleState
    /\ hd = HandlerIdleState
    /\ mn = MentionIdleState
    /\ \/ fcall \in {Calling("exportFileName", a) : a \in ExportRefPairs}
       \/ fcall \in {Calling("parseFigmaUrl", a) : a \in ParseInputs}
       \/ fcall \in {Calling("findJiraTicketKeys", a) : a \in KeyInputs}
       \/ fcall \in {Calling("extractText", a) : a \in Documents}
       \/ fcall \in {Calling("roundTrip", a) : a \in PlainTexts}
       \/ fcall \in {Calling("buildCommentADF", a) : a \in PlainTexts}

NextFunctions ==
    \/ CallExportFileName
    \/ CallParseFigmaUrl
    \/ CallFindJiraTicketKeys
    \/ CallExtractText
    \/ CallRoundTrip
    \/ CallBuildCommentADF

SpecFunctions == InitFunctions /\ [][NextFunctions]_vars

---------------------------------------------------------------------------
(* What the synchronous functions returned *)

Returned(f) == fcall.f = f /\ fcall.done

\* C14: two exported images of different (fileKey, node id) pairs never get the
\* same file name, for the node ids the provider assigns.
C14_UniquePaths ==
    Returned("exportFileName") =>
        (fcall.res[1] = fcall.res[2] => fcall.arg[1] = fcall.arg[2])

\* two nodes of one file, one of them inside an instance, with different names
C14_Witness ==
    /\ Returned("exportFileName")
    /\ fcall.arg[1].fileKey = fcall.arg[2].fileKey
    /\ fcall.arg[1].id = <<"I", "1", ":", "2", ";", "1", "2", ":", "2">>
    /\ fcall.arg[2].id = <<"1", ":", "2">>
    /\ fcall.res[1] # fcall.res[2]

\* the URLs of a document in depth-first document order: the hrefs of the link
\* marks of a text node, the url of a card, then those of the content
RECURSIVE NodeUrls(_)
NodeUrls(node) ==
    LET RECURSIVE Of(_)
        Of(nodes) == IF nodes = <<>> THEN <<>> ELSE NodeUrls(Head(nodes)) \o Of(Tail(nodes))
    IN (IF node.type = "text" THEN node.hrefs ELSE <<>>)
          \o (IF node.type \in {"inlineCard", "blockCard", "embedCard"} /\ node.url # ""
              THEN <<node.url>> ELSE <<>>)
          \o Of(node.content)

\* C15: extractText(D).urls is the sequence, in depth-first document order and
\* with duplicates kept, of the href of every link mark on a text node and the
\* url of every card node, at any depth of D.
C15_AllUrlsCollected ==
    Returned("extractText") => fcall.res.urls = NodeUrls(fcall.arg)

NonSpace(str) == SelectSeq(str, LAMBDA c : c \notin {" ", "\n"})

\* a line of the text begins, after spaces, with "- "
HasBulletMarker(str) ==
    \E i \in 1..(Len(str) - 1) :
        /\ str[i] = "-" /\ str[i + 1] = " "
        /\ \E st \in 1..i : /\ st = 1 \/ str[st - 1] = "\n"
                            /\ \A m \in st..(i - 1) : str[m] = " "

\* the text with its whitespace normalized at the block boundaries: a run of
\* whitespace that has two line feeds in a row becomes one line feed, the runs at
\* the two ends go, and the last block ends with a line feed
BlockNormalized(str) ==
    LET White(i) == str[i] \in {" ", "\n"}
        Lo(i) == CHOOSE l \in 1..i : /\ \A m \in l..i : White(m)
                                     /\ l = 1 \/ ~White(l - 1)
        Hi(i) == CHOOSE h \in i..Len(str) : /\ \A m \in i..h : White(m)
                                            /\ h = Len(str) \/ ~White(h + 1)
        Blank(i) == \E k \in Lo(i)..(Hi(i) - 1) : str[k] = "\n" /\ str[k + 1] = "\n"
        Piece(i) ==
            IF ~White(i) THEN <<str[i]>>
            ELSE IF Lo(i) = 1 \/ Hi(i) = Len(str) THEN <<>>
            ELSE IF Blank(i) THEN (IF i = Lo(i) THEN <<"\n">> ELSE <<>>)
            ELSE <<str[i]>>
        RECURSIVE From(_)
        From(i) == IF i > Len(str) THEN <<"\n">> ELSE Piece(i) \o From(i + 1)
    IN From(1)

\* C16: for a plain text without markup and without bullet markers, decoding
\* the comment built from it gives the text back with its whitespace normalized
\* at the block boundaries and every line break inside a block kept.
C16_RoundTrip ==
    (Returned("roundTrip") /\ ~HasBulletMarker(fcall.arg)) =>
        IF NonSpace(fcall.arg) = <<>> THEN NonSpace(fcall.res) = <<>>
        ELSE fcall.res = BlockNormalized(fcall.arg)

\* two blocks, the first of two lines
C16_Witness ==
    /\ Returned("roundTrip")
    /\ fcall.arg = <<"a", "\n", "-", "\n", "\n", "a">>
       \/ fcall.arg = <<"a", "\n", "a", "\n", "\n">>
    /\ Len(fcall.res) = Len(fcall.arg) - 1

UpperWord(w) ==
    [i \in 1..Len(w) |-> CASE w[i] = "a" -> "A" [] w[i] = "b" -> "B" [] OTHER -> w[i]]

\* C17: findJiraTicketKeys returns a duplicate-free collection of upper-case
\* keys that has the upper-case form of every ticket token of the text, whatever
\* its letter case, and no key equal to currentKey but for letter case.
C17_CaseInsensitiveKeys ==
    Returned("findJiraTicketKeys") =>
        LET res == fcall.res
            text == fcall.arg.text
            current == UpperWord(fcall.arg.currentKey)
        IN /\ \A i, j \in 1..Len(res) : i # j => res[i] # res[j]
           /\ \A i \in 1..Len(res) :
                 KeyPatternMatches(res[i]) /\ UpperWord(res[i]) # current
           /\ \A i \in 1..Len(text) :
                 (KeyPatternMatches(UpperWord(text[i].s)) /\ UpperWord(text[i].s) # current)
                    => \E j \in 1..Len(res) : res[j] = UpperWord(text[i].s)

\* C18: parseFigmaUrl returns null when the path has no file, design or proto
\* segment followed by a key; otherwise fileKey is the segment after the first
\* such keyword, and nodeId the node-id parameter with ":" for each "-", or
\* absent without the parameter.
C18_ParseFigmaUrl ==
    Returned("parseFigmaUrl") =>
        LET p == fcall.arg.path
            q == fcall.arg.nodeId
            keyed == {i \in 1..(Len(p) - 1) : p[i] \in {StrFile, StrDesign, StrProto}
                                              /\ p[i + 1] # <<>>}
        IN IF keyed = {} THEN ~fcall.res.ok
           ELSE /\ fcall.res.ok
                /\ \E i \in keyed : /\ \A j \in keyed : i <= j
                                    /\ fcall.res.fileKey = p[i + 1]
                /\ fcall.res.nodeId =
                      IF q.present
                      THEN [k \in 1..Len(q.value) |->
                               IF q.value[k] = "-" THEN ":" ELSE q.value[k]]
                      ELSE <<>>

\* C18 as amended: parseFigmaUrl looks at the first file, design or proto segment
\* only: it returns null when there is none or when that segment is the last one
\* or is followed by an empty segment; otherwise fileKey is the segment after
\* it, and nodeId the node-id parameter with ":" for each "-", or absent.
C18_ParseFirstKeyword ==
    Returned("parseFigmaUrl") =>
        LET p == fcall.arg.path
            q == fcall.arg.nodeId
            IsFirstKeyword(i) ==
                /\ p[i] \in {StrFile, StrDesign, StrProto}
                /\ \A j \in 1..(i - 1) : p[j] \notin {StrFile, StrDesign, StrProto}
        IN /\ fcall.res.ok <=>
                \E i \in 1..(Len(p) - 1) : IsFirstKeyword(i) /\ p[i + 1] # <<>>
           /\ fcall.res.ok =>
                /\ \E i \in 1..(Len(p) - 1) : IsFirstKeyword(i) /\ fcall.res.fileKey = p[i + 1]
                /\ fcall.res.nodeId =
                      IF q.present
                      THEN [k \in 1..Len(q.value) |->
                               IF q.value[k] = "-" THEN ":" ELSE q.value[k]]
                      ELSE <<>>

\* https://figma.com/design/AB/c?node-id=1-2 gives fileKey AB and nodeId 1:2
C18_Witness ==
    /\ Returned("parseFigmaUrl")
    /\ fcall.arg.path = <<<<>>, StrDesign, StrAB, <<"c">>>>
    /\ fcall.arg.nodeId = Param(<<"1", "-", "2">>)
    /\ fcall.res = [ok |-> TRUE, fileKey |-> StrAB, nodeId |-> <<"1", ":", "2">>]

---------------------------------------------------------------------------
(* The jira_update_ticket tool, lines 1486-1591 *)

\* str.replace(pat, "") for a string pat: its first occurrence goes
ReplaceFirst(str, pat) ==
    LET n == Len(pat)
        at == {i \in 1..(Len(str) - n + 1) : SubSeq(str, i, i + n - 1) = pat}
        first == CHOOSE i \in at : \A j \in at : i <= j
    IN IF at = {} THEN str
       ELSE SubSeq(str, 1, first - 1) \o SubSeq(str, first + n, Len(str))

\* removeText of lines 1537-1560
RECURSIVE RemoveText(_, _)
RemoveText(nodes, pat) ==
    LET Mapped(node) ==
            [node EXCEPT
               !.text = IF node.type = "text" /\ node.text # <<>>
                        THEN ReplaceFirst(node.text, pat) ELSE node.text,
               !.content = RemoveText(node.content, pat)]
        Kept(node) ==
            /\ ~(node.type = "text" /\ Trim(node.text) = <<>>)
            /\ ~(node.type = "paragraph" /\ node.content = <<>>)
    IN SelectSeq([i \in 1..Len(nodes) |-> Mapped(nodes[i])], Kept)

\* an issue without description
NullDoc == Block("null", <<>>)

\* { type: "paragraph", content: [{ type: "text", text }] }
NewParagraph(text) == Block("paragraph", <<TextNode(text)>>)

\* the issue the backend holds: its summary (empty for none) and its description
UpdateIssues ==
    [summary : {<<>>, <<"T">>},
     description : {NullDoc,
                    Block("doc", <<>>),
                    Block("doc", <<NewParagraph(<<"Y">>)>>),
                    Block("doc", <<NewParagraph(<<"a", "Y", "b", "Y">>)>>),
                    Block("doc", <<NewParagraph(<<"a">>),
                                   Block("paragraph", <<TextNode(<<"Y", " ">>),
                                                        TextNode(<<"b">>)>>)>>)}]

\* the arguments of a call but issueKey; an omitted string is the empty string,
\* which the handler treats alike
UpdateArgs ==
    [summary : {<<>>, <<"S">>},
     replaceSummary : BOOLEAN,
     description : {<<>>, <<"X">>},
     replaceDescription : BOOLEAN,
     removeFromDescription : {<<>>, <<"Y">>},
     assignee : {"", "unassigned", "u1"},
     priority : {"", "High"},
     labels : {[present |-> FALSE, value |-> <<>>],
               [present |-> TRUE, value |-> <<>>],
               [present |-> TRUE, value |-> <<"l">>]}]

\* Object.keys(fields)
FieldKeys(fields) == [i \in 1..Len(fields) |-> fields[i][1]]

HasField(fields, key) == \E i \in 1..Len(fields) : fields[i][1] = key

\* fields[key]
FieldValue(fields, key) == fields[CHOOSE i \in 1..Len(fields) : fields[i][1] = key][2]

\* fields[key] = value: a new key goes last, a key already set keeps its place
SetField(fields, key, value) ==
    IF HasField(fields, key)
    THEN [i \in 1..Len(fields) |-> IF fields[i][1] = key THEN <<key, value>> ELSE fields[i]]
    ELSE Append(fields, <<key, value>>)

\* a request of fetchJira on the issue
JiraRequest(method, what, body) == [method |-> method, what |-> what, body |-> body]

\* the step at up.pc sends a GET first
SendsGet ==
    \/ up.pc = "summary" /\ up.args.summary # <<>> /\ ~up.args.replaceSummary
    \/ up.pc = "description" /\ up.args.description # <<>> /\ ~up.args.replaceDescription
    \/ up.pc = "remove" /\ up.args.removeFromDescription # <<>>

UpdateFrame ==
    UNCHANGED <<remote, retryVars, diskVars, figmaVars, ticketVars, fcall, tr, hd, mn>>

\* the tool is called
UpdateTicketCall ==
    /\ up.pc = "idle"
    /\ \E args \in UpdateArgs : up' = [up EXCEPT !.pc = "summary", !.args = args]
    /\ UpdateFrame

\* lines 1488-1499
UpdateSummary ==
    /\ up.pc = "summary"
    /\ up' =
         IF up.args.summary = <<>> THEN [up EXCEPT !.pc = "description"]
         ELSE IF up.args.replaceSummary
         THEN [up EXCEPT !.pc = "description",
                         !.fields = SetField(@, "summary", up.args.summary)]
         ELSE [up EXCEPT !.pc = "description",
                         !.calls = Append(@, JiraRequest("GET", "summary", <<>>)),
                         !.fields = SetField(@, "summary",
                                       up.issue.summary \o <<" ">> \o up.args.summary)]
    /\ UpdateFrame

\* lines 1500-1529
UpdateDescription ==
    /\ up.pc = "description"
    /\ LET newParagraph == NewParagraph(up.args.description)
           existing == up.issue.description
       IN up' =
            IF up.args.description = <<>> THEN [up EXCEPT !.pc = "remove"]
            ELSE IF up.args.replaceDescription
            THEN [up EXCEPT !.pc = "remove",
                            !.fields = SetField(@, "description",
                                                Block("doc", <<newParagraph>>))]
            ELSE [up EXCEPT !.pc = "remove",
                            !.calls = Append(@, JiraRequest("GET", "description", <<>>)),
                            !.fields = SetField(@, "description",
                                          IF existing # NullDoc
                                          THEN [existing EXCEPT
                                                  !.content = Append(@, newParagraph)]
                                          ELSE Block("doc", <<newParagraph>>))]
    /\ UpdateFrame

\* lines 1530-1564
UpdateRemove ==
    /\ up.pc = "remove"
    /\ LET existing == up.issue.description
       IN up' =
            IF up.args.removeFromDescription = <<>> THEN [up EXCEPT !.pc = "rest"]
            ELSE [up EXCEPT !.pc = "rest",
                            !.calls = Append(@, JiraRequest("GET", "description", <<>>)),
                            !.fields =
                               IF existing # NullDoc
                               THEN SetField(@, "description",
                                       [existing EXCEPT !.content =
                                           RemoveText(@, up.args.removeFromDescription)])
                               ELSE @]
    /\ UpdateFrame

\* a field that always goes into the update
WithAssigneeAlways(fields, args) ==
    SetField(fields, "assignee",
             IF args.assignee = "unassigned" THEN [accountId |-> "", null |-> TRUE]
             ELSE [accountId |-> args.assignee, null |-> FALSE])
\* lines 1565-1568
WithAssignee(fields, args) ==
    IF args.assignee = "" THEN fields
    ELSE SetField(fields, "assignee",
                  IF args.assignee = "unassigned" THEN [accountId |-> "", null |-> TRUE]
                  ELSE [accountId |-> args.assignee, null |-> FALSE])

\* lines 1569-1571
WithPriority(fields, args) ==
    IF args.priority = "" THEN fields ELSE SetField(fields, "priority", args.priority)

\* lines 1572-1574: an empty array is a value as any other
WithLabels(fields, args) ==
    IF args.labels.present THEN SetField(fields, "labels", args.labels.value) ELSE fields

\* lines 1565-1580
UpdateRest ==
    /\ up.pc = "rest"
    /\ LET fields == WithLabels(WithPriority(WithAssignee(up.fields, up.args), up.args),
                                up.args)
       IN up' = IF fields = <<>>
                THEN [up EXCEPT !.pc = "return", !.fields = fields,
                                !.answer = [text |-> "No fields provided to update.",
                                            keys |-> <<>>]]
                ELSE [up EXCEPT !.pc = "put", !.fields = fields]
    /\ UpdateFrame

\* lines 1582-1591: the backend answers the PUT and now holds the fields sent
UpdatePut ==
    /\ up.pc = "put"
    /\ up' = [up EXCEPT
                !.pc = "return",
                !.calls = Append(@, JiraRequest("PUT", "issue", up.fields)),
                !.issue = [summary |-> IF HasField(up.fields, "summary")
                                       THEN FieldValue(up.fields, "summary")
                                       ELSE @.summary,
                           description |-> IF HasField(up.fields, "description")
                                           THEN FieldValue(up.fields, "description")
                                           ELSE @.description],
                !.answer = [text |-> "Updated", keys |-> FieldKeys(up.fields)]]
    /\ UpdateFrame

\* fetchJira throws on a response that is not ok (lines 94-99), and the handler's
\* catch answers with the error (lines 1595-1600)
UpdateRequestFails ==
    /\ SendsGet \/ up.pc = "put"
    /\ up' = [up EXCEPT
                !.pc = "return",
                !.calls = Append(@, IF up.pc = "put"
                                    THEN JiraRequest("PUT", "issue", up.fields)
                                    ELSE JiraRequest("GET", IF up.pc = "summary"
                                                            THEN "summary"
                                                            ELSE "description", <<>>)),
                !.answer = [text |-> "Error", keys |-> <<>>]]
    /\ UpdateFrame

InitUpdate ==
    /\ remote = [responses |-> {}, nodeBodies |-> {}]
    /\ RetryIdle
    /\ DiskFresh
    /\ FigmaIdle
    /\ TicketIdle
    /\ fcall = NoCall
    /\ tr = TransitionIdleState
    /\ hd = HandlerIdleState
    /\ mn = MentionIdleState
    /\ up \in {[UpdateIdleState EXCEPT !.issue = i] : i \in UpdateIssues}

NextUpdate ==
    \/ UpdateTicketCall
    \/ UpdateSummary
    \/ UpdateDescription
    \/ UpdateRemove
    \/ UpdateRest
    \/ UpdatePut
    \/ UpdateRequestFails

SpecUpdate == InitUpdate /\ [][NextUpdate]_vars

\* the PUT requests sent
PutsSent == SelectSeq(up.calls, LAMBDA c : c.method = "PUT")

\* the argument that asks for the field `key` was passed
ArgumentPassed(key) ==
    CASE key = "summary" -> up.args.summary # <<>>
      [] key = "description" ->
            up.args.description # <<>> \/ up.args.removeFromDescription # <<>>
      [] key = "assignee" -> up.args.assignee # ""
      [] key = "priority" -> up.args.priority # ""
      [] key = "labels" -> up.args.labels.present
      [] OTHER -> FALSE

\* C19: the fields object of the PUT of jira_update_ticket has a key only for
\* a field whose argument was passed, and when no field results from the
\* arguments no PUT is sent and the tool answers that no fields were provided.
C19_OmittedUntouched ==
    /\ \A i \in 1..Len(PutsSent) :
          /\ PutsSent[i].body # <<>>
          /\ \A k \in 1..Len(PutsSent[i].body) : ArgumentPassed(PutsSent[i].body[k][1])
    /\ (up.pc = "return" /\ up.fields = <<>> /\ up.answer.text # "Error") =>
          /\ PutsSent = <<>>
          /\ up.answer.text = "No fields provided to update."

\* a call with priority alone has sent a PUT with that key alone
C19_Witness ==
    /\ up.pc = "return"
    /\ up.args.priority = "High" /\ up.args.assignee = "" /\ ~up.args.labels.present
    /\ up.args.summary = <<>> /\ up.args.description = <<>>
    /\ up.args.removeFromDescription = <<>>
    /\ Len(PutsSent) = 1
    /\ FieldKeys(PutsSent[1].body) = <<"priority">>

\* C20: for a call with a description and replaceDescription not true, the
\* description sent in the PUT is the content of the existing description and
\* then one new paragraph with the argument text, whatever the other arguments;
\* with replaceDescription true it is that paragraph alone.
C20_AppendsByDefault ==
    (up.pc = "put" /\ up.args.description # <<>>) =>
        /\ HasField(up.fields, "description")
        /\ FieldValue(up.fields, "description").content =
              (IF up.args.replaceDescription THEN <<>>
               ELSE up.issue.description.content)
                 \o <<Block("paragraph", <<TextNode(up.args.description)>>)>>

---------------------------------------------------------------------------
(* The jira_transition tool, lines 1391-1485 *)

\* str.toLowerCase() on the names of the workflows below
Lower(str) ==
    CASE str \in {"Done", "DONE", "done"} -> "done"
      [] str \in {"In Progress", "IN PROGRESS", "in progress"} -> "in progress"
      [] str \in {"Review", "review"} -> "review"
      [] str \in {"Finish", "finish"} -> "finish"
      [] str = "Start" -> "start"
      [] str = "Close" -> "close"
      [] str = "To Do" -> "to do"
      [] str = "Closed" -> "closed"
      [] str = "Backlog" -> "backlog"
      [] str = "Selected" -> "selected"
      [] str = "Dev" -> "dev"
      [] str = "Test" -> "test"
      [] str = "Staging" -> "staging"
      [] str = "Canary" -> "canary"
      [] str = "Live" -> "live"
      [] OTHER -> str

\* a transition as the backend lists it; `to` is "" when it names no status
Transition(id, name, to) == [id |-> id, name |-> name, to |-> to]

\* the longest run of statuses left by a transition named In Progress
MaxChain == 4

ChainStatuses == <<"Backlog", "Selected", "Dev", "Test", "Staging", "Canary", "Live">>

\* a workflow: the status of the issue and the transitions offered in each
\* status, none where nothing is listed
Workflow(start, offered) == [start |-> start, offered |-> offered]

\* n statuses in a row, each left by a transition named In Progress, and then
\* one left by Finish to Done
ChainWorkflow(n) ==
    Workflow("Backlog",
        [st \in {ChainStatuses[i] : i \in 1..(n + 1)} |->
            LET i == CHOOSE j \in 1..(n + 1) : ChainStatuses[j] = st
            IN IF i <= n
               THEN <<Transition("in", "In Progress", ChainStatuses[i + 1])>>
               ELSE <<Transition("fin", "Finish", "Done")>>])

Workflows ==
    {ChainWorkflow(n) : n \in 0..MaxChain}
      \cup {Workflow("To Do",
                ("To Do" :> <<Transition("11", "Start", "In Progress")>>)
                 @@ ("In Progress" :> <<Transition("21", "Review", "Review")>>)
                 @@ ("Review" :> <<Transition("31", "Close", "Done")>>)),
            Workflow("To Do",
                ("To Do" :> <<Transition("11", "Start", "In Progress"),
                              Transition("12", "Close", "Done")>>)
                 @@ ("In Progress" :> <<Transition("31", "Close", "Done")>>)),
            Workflow("In Progress",
                ("In Progress" :> <<Transition("21", "IN PROGRESS", "")>>)),
            Workflow("Review",
                ("Review" :> <<Transition("31", "DONE", ""),
                               Transition("32", "Close", "Done")>>)),
            Workflow("Done", <<>>)}

\* result.transitions || [] of a GET on the transitions of the issue
Available == IF tr.status \in DOMAIN tr.workflow THEN tr.workflow[tr.status] ELSE <<>>

\* the status of the issue once the backend has executed transition t
StatusAfter(t) == IF t.to = "" THEN tr.status ELSE t.to

\* Array.prototype.find: the first element with the property, <<>> for undefined
Find(seq, Test(_)) ==
    IF \E i \in 1..Len(seq) : Test(seq[i])
    THEN seq[CHOOSE i \in 1..Len(seq) : Test(seq[i]) /\ \A j \in 1..(i - 1) : ~Test(seq[j])]
    ELSE <<>>

\* lines 1414-1418 and 1437-1441
MatchesName(t, lower) == Lower(t.to) = lower \/ Lower(t.name) = lower

TransitionArgs ==
    [transitionId : {"", "31", "99"}, targetStatus : {"", "Done", "done", "Review"}]

\* a request of fetchJira on the transitions of the issue
TransitionRequest(method, t) == [method |-> method, from |-> tr.status, t |-> t]

TransitionFrame ==
    UNCHANGED <<remote, retryVars, diskVars, figmaVars, ticketVars, fcall, up, hd, mn>>

\* the tool is called
TransitionCall ==
    /\ tr.pc = "idle"
    /\ \E args \in TransitionArgs :
          tr' = [tr EXCEPT !.args = args,
                           !.pc = IF args.transitionId = "" /\ args.targetStatus = ""
                                  THEN "list"
                                  ELSE IF args.targetStatus # "" THEN "look" ELSE "byId"]
    /\ TransitionFrame

\* lines 1392-1403
TransitionList ==
    /\ tr.pc = "list"
    /\ tr' = [tr EXCEPT !.pc = "return",
                        !.calls = Append(@, TransitionRequest("GET", <<>>)),
                        !.answer = [kind |-> "list", names |-> Available]]
    /\ TransitionFrame

\* lines 1408-1447, one turn of the loop up to its POST
TransitionLook ==
    /\ tr.pc = "look"
    /\ LET targetLower == Lower(tr.args.targetStatus)
           directMatch == Find(Available, LAMBDA t : MatchesName(t, targetLower))
           inProgress == Find(Available, LAMBDA t : MatchesName(t, "in progress"))
       IN tr' = [tr EXCEPT
                   !.calls = Append(@, TransitionRequest("GET", <<>>)),
                   !.pc = IF directMatch # <<>> THEN "direct"
                          ELSE IF inProgress # <<>> THEN "step" ELSE "last",
                   !.chosen = IF directMatch # <<>> THEN directMatch ELSE inProgress]
    /\ TransitionFrame

\* lines 1420-1433
TransitionDirect ==
    /\ tr.pc = "direct"
    /\ LET path == Append(tr.transitions,
                          IF tr.chosen.to # "" THEN tr.chosen.to ELSE tr.chosen.name)
       IN tr' = [tr EXCEPT
                   !.pc = "return",
                   !.calls = Append(@, TransitionRequest("POST", tr.chosen)),
                   !.status = StatusAfter(tr.chosen),
                   !.transitions = path,
                   !.answer = [kind |-> "transitioned", names |-> path]]
    /\ TransitionFrame

\* lines 1443-1450, and the loop test of line 1409
TransitionStep ==
    /\ tr.pc = "step"
    /\ tr' = [tr EXCEPT
                !.pc = IF tr.attempt + 1 < 3 THEN "look" ELSE "last",
                !.attempt = @ + 1,
                !.calls = Append(@, TransitionRequest("POST", tr.chosen)),
                !.status = StatusAfter(tr.chosen),
                !.transitions = Append(@, IF tr.chosen.to # "" THEN tr.chosen.to
                                          ELSE "In Progress")]
    /\ TransitionFrame

\* lines 1456-1469
TransitionGiveUp ==
    /\ tr.pc = "last"
    /\ tr' = [tr EXCEPT
                !.pc = "return",
                !.calls = Append(@, TransitionRequest("GET", <<>>)),
                !.answer = [kind |-> "couldNot",
                            names |-> [i \in 1..Len(Available) |->
                                          IF Available[i].to # "" THEN Available[i].to
                                          ELSE Available[i].name]]]
    /\ TransitionFrame

\* lines 1472-1484: the backend executes a transition it offers
TransitionById ==
    /\ tr.pc = "byId"
    /\ \E i \in 1..Len(Available) :
          /\ Available[i].id = tr.args.transitionId
          /\ tr' = [tr EXCEPT
                      !.pc = "return",
                      !.calls = Append(@, TransitionRequest("POST", Available[i])),
                      !.status = StatusAfter(Available[i]),
                      !.answer = [kind |-> "executed", names |-> <<tr.args.transitionId>>]]
    /\ TransitionFrame

\* fetchJira throws on a response that is not ok (lines 94-99), and the handler's
\* catch answers with the error (lines 1595-1600)
TransitionRequestFails ==
    /\ tr.pc \in {"list", "look", "direct", "step", "last", "byId"}
    /\ tr' = [tr EXCEPT !.pc = "return", !.answer = [kind |-> "error", names |-> <<>>]]
    /\ TransitionFrame

InitTransition ==
    /\ remote = [responses |-> {}, nodeBodies |-> {}]
    /\ RetryIdle
    /\ DiskFresh
    /\ FigmaIdle
    /\ TicketIdle
    /\ fcall = NoCall
    /\ up = UpdateIdleState
    /\ hd = HandlerIdleState
    /\ mn = MentionIdleState
    /\ tr \in {[TransitionIdleState EXCEPT !.workflow = w.offered, !.status = w.start] :
                  w \in Workflows}

NextTransition ==
    \/ TransitionCall
    \/ TransitionList
    \/ TransitionLook
    \/ TransitionDirect
    \/ TransitionStep
    \/ TransitionGiveUp
    \/ TransitionById
    \/ TransitionRequestFails

SpecTransition == InitTransition /\ [][NextTransition]_vars

\* the transitions the call has executed, each with the status it was executed in
Executed == SelectSeq(tr.calls, LAMBDA c : c.method = "POST")

\* C21: a jira_transition call with targetStatus executes, after at most 3
\* In-Progress transitions, the transition whose name or destination is the
\* target whenever one is offered then, and reports the path; before it only
\* In-Progress transitions are executed; it gives up only when none is offered.
C21_ReachesTarget ==
    (tr.pc = "return" /\ tr.args.targetStatus # "" /\ tr.answer.kind # "error") =>
        LET lower == Lower(tr.args.targetStatus)
            n == Len(Executed)
            steps == IF tr.answer.kind = "transitioned" THEN n - 1 ELSE n
        IN /\ steps <= 3
           /\ \A i \in 1..steps :
                 Lower(Executed[i].t.name) = "in progress"
                    \/ Lower(Executed[i].t.to) = "in progress"
           /\ IF tr.answer.kind = "transitioned"
              THEN /\ Lower(Executed[n].t.name) = lower \/ Lower(Executed[n].t.to) = lower
                   /\ \E i \in 1..Len(tr.workflow[Executed[n].from]) :
                         tr.workflow[Executed[n].from][i] = Executed[n].t
                   /\ Len(tr.answer.names) = n
              ELSE \A i \in 1..Len(Available) :
                      Lower(Available[i].name) # lower /\ Lower(Available[i].to) # lower

---------------------------------------------------------------------------
(* The order of a run of getTicket, its bounds and its referenced tickets *)

\* the stage of a remote call of getTicket, in the order of the stages
StageOf(c) ==
    IF c[1] = "jira"
    THEN CASE c[2] = "primary" -> 1 [] c[2] = "parent" -> 2 [] c[2] = "subtask" -> 4
           [] c[2] = "linked" -> 5 [] c[2] = "referenced" -> 6
    ELSE IF c[1] = "attachment" THEN 3 ELSE 7

\* the section of a part of the report
SectionOf(o) ==
    CASE o[1] = "title" -> 1
      [] o[1] \in {"parentHeader", "parentDetails", "parentError"} -> 2
      [] o[1] = "commentsHeader" -> 3
      [] o[1] \in {"attachmentsHeader", "attachment", "local", "attachmentUrl",
                   "downloadFailed"} -> 4
      [] o[1] \in {"subtasksHeader", "subtaskHeader", "subtaskDetails"} -> 5
      [] o[1] \in {"linkedIssuesHeader", "linkedHeader", "linkedDetails", "linkedError",
                   "moreLinked"} -> 6
      [] o[1] \in {"referencedHeader", "referencedDetails", "referencedError",
                   "moreReferenced"} -> 7
      [] o[1] \in {"figmaHeader", "figmaError", "figmaDesign", "figmaCouldNotFetch"} -> 8

\* the requests that have been sent and not yet answered: one of getTicket to
\* the ticket backend, one of figmaFetchWithRetry, one image download
RequestsInFlight ==
    (IF tk.pc \in {"primary", "parent", "attachment", "subtask", "linked", "referenced"}
     THEN 1 ELSE 0)
      + (IF pcR = "request" THEN 1 ELSE 0)
      + (IF pcF \in {"childDownload", "wholeDownload"} THEN 1 ELSE 0)

C24_BoundedTraversal ==
    /\ Len(StageKeys("primary")) <= 1
    /\ Len(StageKeys("parent")) <= 1
    /\ \A i \in 1..Len(StageKeys("parent")) :
          StageKeys("parent")[i] = jira[PrimaryKey].parent
    /\ Len(StageKeys("subtask")) <= Len(jira[PrimaryKey].subtasks)
    /\ Len(StageKeys("linked")) <= 10
    /\ Len(StageKeys("referenced")) <= 10
    /\ Len(JiraCalls) <= 1 + 1 + Len(jira[PrimaryKey].subtasks) + 10 + 10

\* a returned run on a ticket that is its own parent, linked to itself and
\* mentioned by the ticket it mentions
C24_Witness ==
    /\ tk.pc = "return"
    /\ jira[PrimaryKey].parent = PrimaryKey
    /\ StageKeys("parent") = <<PrimaryKey>>
    /\ StageKeys("linked") = <<"B-2", PrimaryKey>>
    /\ Len(JiraCalls) = 4

\* the run has left the referenced-ticket stage behind
PastReferenced ==
    \/ tk.pc \in {"design", "return"}
    \/ tk.pc = "threw" /\ PrimaryFetched

\* C25: every ticket fetched in the referenced stage is a key of the text pool
\* that is not the primary key nor the key of the parent, of a subtask or of a
\* linked item; at most 10 are fetched, and with m > 10 candidates the report
\* has the note "m - 10 more referenced tickets".
C25_ReferencedStage ==
    LET fetched == StageKeys("referenced")
        fields == jira[PrimaryKey]
        m == Len(tk.toFetch)
        notes == SelectSeq(tk.output, LAMBDA o : o[1] = "moreReferenced")
    IN /\ Len(fetched) <= 10
       /\ fetched = SubSeq(tk.toFetch, 1, Len(fetched))
       /\ \A i \in 1..m :
             LET k == tk.toFetch[i] IN
             /\ \E j \in 1..Len(tk.allText) :
                   tk.allText[j].t \in {"key", "browse"} /\ tk.allText[j].key = k
             /\ k # PrimaryKey
             /\ k # fields.parent
             /\ \A j \in 1..Len(fields.subtasks) : k # fields.subtasks[j]
             /\ \A j \in 1..Len(fields.issuelinks) :
                   k # fields.issuelinks[j].outward /\ k # fields.issuelinks[j].inward
             /\ \A j \in 1..m : j # i => tk.toFetch[j] # k
       /\ IF PastReferenced
          THEN /\ Len(fetched) = (IF m < 10 THEN m ELSE 10)
               /\ notes = IF m > 10 THEN << <<"moreReferenced", m - 10>> >> ELSE <<>>
          ELSE notes = <<>>

\* a returned run on a ticket that mentions 11 other tickets: 10 fetches and
\* "1 more"
C25_Witness ==
    /\ tk.pc = "return"
    /\ Len(tk.toFetch) = 11
    /\ Len(StageKeys("referenced")) = 10
    /\ \E i \in 1..Len(tk.output) : tk.output[i] = <<"moreReferenced", 1>>

---------------------------------------------------------------------------
(* The retry-after header of a 429, as figmaFetchWithRetry uses it *)

\* C26: for every 429 whose retry-after header is a number d >= 0 of seconds,
\* d is what is compared with maxWaitSec and the exact length of the wait (and
\* what the RateLimited result reports); 60 seconds are used only when the
\* header is absent or not a number.
C26_RetryAfterUsed ==
    \A i \in 1..Len(rTrace) :
        (rTrace[i][1] = "resp" /\ rTrace[i][2] = 429) =>
            LET h == rTrace[i][3]
                d == IF h.kind = "num" THEN h.n ELSE 60
            IN /\ d > rMaxWaitSec => i = Len(rTrace)
               /\ i < Len(rTrace) => rTrace[i + 1] = <<"sleep", d * 1000>>
               /\ (i = Len(rTrace) /\ pcR = "return") =>
                     /\ rResult.rateLimited
                     /\ rResult.retryAfter.n = (IF d > 3600 THEN (d + 1800) \div 3600 ELSE d)

---------------------------------------------------------------------------
(* The batched export of children, and the failures of the pipeline's calls *)

\* the k-th qualifying child of the node, in document order
NthQualifying(k) ==
    CHOOSE j \in QualifyingChildren :
        Cardinality({i \in QualifyingChildren : i < j}) = k - 1

FirstQualifyingIds ==
    LET n == Cardinality(QualifyingChildren)
    IN [k \in 1..(IF n < 8 THEN n ELSE 8) |-> fDoc.children[NthQualifying(k)].id]

\* C27: for a large node with n qualifying children fetchFigmaDesign issues
\* exactly one image-render call; it names exactly the first min(n, 8)
\* qualifying children in document order; images are downloaded only for those
\* children, each at most once, and at most 8 images are returned.
C27_BatchedChildExport ==
    (fDoc # NoDoc /\ NodeIsLarge /\ QualifyingChildren # {}) =>
        /\ Len(ImagesCalls) = 1
        /\ ImagesCalls[1][3] = FirstQualifyingIds
        /\ \A i \in 1..Len(DownloadCalls) :
              /\ \E k \in 1..Len(FirstQualifyingIds) :
                    DownloadCalls[i][2] = FirstQualifyingIds[k]
              /\ \A j \in 1..Len(DownloadCalls) :
                    i # j => DownloadCalls[i][2] # DownloadCalls[j][2]
        /\ Len(fResult.images) <= 8

\* a node whose first child is a text and whose next nine are frames: the render
\* named eight of the frames and all eight images came back
C27_Witness ==
    /\ pcF = "return"
    /\ NodeIsLarge
    /\ 1 \notin QualifyingChildren
    /\ Cardinality(QualifyingChildren) = 9
    /\ Len(ImagesCalls[1][3]) = 8
    /\ Len(DownloadCalls) = 8
    /\ Len(fResult.images) = 8

\* the run exported children of the node and downloaded at least one image
BatchedRun ==
    /\ Len(ImagesCalls) = 1
    /\ ~IsWholeRender(ImagesCalls[1])
    /\ DownloadCalls # <<>>

\* the candidates that were given an image URL, in candidate order
CandidatesWithUrl == SelectSeq(ImagesCalls[1][3], LAMBDA id : id \in fImages)

\* C28: when the download of some child images fails (another status, or a
\* rejected fetch), the download of every remaining candidate child is still
\* attempted and fetchFigmaDesign returns a success result whose images are
\* exactly the children whose download succeeded, in candidate order; a child
\* download failure never makes the export an error.
C28_PartialSuccess ==
    (pcF = "return" /\ BatchedRun) =>
        /\ fResult.error = NoError
        /\ [i \in 1..Len(DownloadCalls) |-> DownloadCalls[i][2]] = CandidatesWithUrl
        /\ fWrites =
              LET done == SelectSeq(CandidatesWithUrl,
                            LAMBDA id : \E w \in 1..Len(fWrites) :
                                fWrites[w] = ExportFileName(fParsed.fileKey, id))
              IN [i \in 1..Len(done) |-> ExportFileName(fParsed.fileKey, done[i])]
        /\ [i \in 1..Len(fResult.images) |-> fResult.images[i].path] = fWrites

\* three downloads of which only the last one succeeded
C28_Witness ==
    /\ pcF = "return"
    /\ BatchedRun
    /\ Len(DownloadCalls) = 3
    /\ Len(fResult.images) = 1
    /\ fResult.images[1].path = ExportFileName(fParsed.fileKey, DownloadCalls[3][2])
    /\ fResult.error = NoError

\* the error kind the spec gives to the end of a remote call
ErrorKindOf(res) ==
    IF res.rateLimited THEN "RateLimited"
    ELSE IF res.status = 403 THEN "AccessDenied"
    ELSE IF res.status = 404 THEN "NotFound"
    ELSE "ApiError"

\* C29: when the node-metadata call or the image-render call ends RateLimited
\* or with a non-2xx status, fetchFigmaDesign returns the corresponding error
\* kind, not a success result without images.
C29_LaterFailuresSurfaced ==
    [][(/\ pcF \in {"nodeInfo", "imagesBatch", "imagesWhole"}
        /\ pcR = "return"
        /\ ~RetryGotOk
        /\ pcF' # pcF)
       => (pcF' = "return" /\ fResult'.error.code = ErrorKindOf(rResult))]_vars

\* C30: the end of the file-metadata call decides the error: RateLimited gives
\* the rate-limit error, 403 access denied, 404 not found, any other non-2xx
\* status the API error with that status, a thrown exception fetch failed; in
\* each case fetchFigmaDesign returns at once, with no further remote call and
\* no file or directory written.
C30_FileCallErrors ==
    [][(/\ pcF = "fileInfo"
        /\ pcF' # pcF
        /\ (pcR = "threw" \/ (pcR = "return" /\ ~RetryGotOk)))
       => /\ pcF' = "return"
          /\ fResult'.images = <<>>
          /\ IF pcR = "threw"
             THEN fResult'.error.code = "FetchFailed"
             ELSE /\ fResult'.error.code = ErrorKindOf(rResult)
                  /\ rResult.rateLimited => fResult'.error.retryAfter = rResult.retryAfter
                  /\ fResult'.error.code = "ApiError" =>
                        fResult'.error.status = rResult.status
          /\ fCalls' = fCalls
          /\ Len(fCalls) = 1
          /\ fWrites' = <<>>
          /\ UNCHANGED diskVars]_vars

\* the file call got a 404 and the run ended there
C30_Witness ==
    /\ pcF = "return"
    /\ fResult.error = ErrNotFound
    /\ fCalls = <<FileCall(fParsed.fileKey)>>
    /\ fWrites = <<>>

---------------------------------------------------------------------------
(* The CallTool request handler, lines 1178-1601 *)

\* the names of the branches of lines 1182-1486
ToolNames ==
    {"jira_get_myself", "jira_search_users", "jira_get_ticket", "jira_search",
     "jira_add_comment", "jira_reply_comment", "jira_edit_comment",
     "jira_delete_comment", "jira_transition", "jira_update_ticket"}

\* the names a client may send: the tools and names the server does not have
RequestedNames == ToolNames \cup {"jira_create_ticket", ""}

\* every branch but jira_get_myself reads a property of args first
ReadsArgs(name) == name # "jira_get_myself"

\* the messages of the errors a branch throws while it serves the call:
\* fetchJira (line 96), downloadAttachment (line 121), a rejected fetch
ServiceErrors ==
    {"Jira API error", "Failed to download a.png: 404", "request to jira failed"}

UndefinedArgsError == "Cannot read properties of undefined"

\* `Unknown tool: ${name}` of line 1593
UnknownToolError(name) == "Unknown tool: " \o name

\* an exception raised inside the try of line 1181 is taken by the catch of 1595
ThrownOutside(h, message) == [h EXCEPT !.pc = "propagated", !.error = message]
Thrown(h, message) == [h EXCEPT !.pc = "catch", !.error = message]

HandlerFrame ==
    UNCHANGED <<remote, retryVars, diskVars, figmaVars, ticketVars, fcall, up, tr, mn>>

\* a request arrives: line 1179
HandlerCall ==
    /\ hd.pc = "idle"
    /\ \E name \in RequestedNames, hasArgs \in BOOLEAN :
          hd' = [hd EXCEPT !.pc = "try", !.name = name, !.hasArgs = hasArgs]
    /\ HandlerFrame

\* the if chain of lines 1182-1594 and the first statement of the branch
HandlerDispatch ==
    /\ hd.pc = "try"
    /\ hd' = IF hd.name \notin ToolNames THEN Thrown(hd, UnknownToolError(hd.name))
             ELSE IF ReadsArgs(hd.name) /\ ~hd.hasArgs THEN Thrown(hd, UndefinedArgsError)
             ELSE [hd EXCEPT !.pc = "serving"]
    /\ HandlerFrame

\* the branch returns its result
HandlerServe ==
    /\ hd.pc = "serving"
    /\ hd' = [hd EXCEPT !.pc = "returned",
                        !.response = [isError |-> FALSE, text |-> "result of " \o hd.name]]
    /\ HandlerFrame

\* a call the branch awaits throws
HandlerServeThrows ==
    /\ hd.pc = "serving"
    /\ \E message \in ServiceErrors : hd' = Thrown(hd, message)
    /\ HandlerFrame

\* the catch block of lines 1595-1600
HandlerCatch ==
    /\ hd.pc = "catch"
    /\ hd' = [hd EXCEPT !.pc = "returned",
                        !.response = [isError |-> TRUE, text |-> "Error: " \o hd.error]]
    /\ HandlerFrame

InitHandler ==
    /\ remote = [responses |-> {}, nodeBodies |-> {}]
    /\ RetryIdle
    /\ DiskFresh
    /\ FigmaIdle
    /\ TicketIdle
    /\ ToolIdle

NextHandler ==
    \/ HandlerCall
    \/ HandlerDispatch
    \/ HandlerServe
    \/ HandlerServeThrows
    \/ HandlerCatch

SpecHandler == InitHandler /\ [][NextHandler]_vars

\* C23: the tool-call handler is total: for every tool name, unknown names
\* included, and every failure raised while serving the call, the handler goes
\* on until it returns a response; a failure is returned as a response with
\* isError true and the error message; no exception leaves the handler.
C23_HandlerTotal ==
    /\ hd.pc # "propagated"
    /\ hd.pc \in {"try", "serving", "catch"} => ENABLED NextHandler
    /\ hd.pc = "returned" =>
          IF hd.error = ""
          THEN /\ hd.name \in ToolNames
               /\ ~hd.response.isError
          ELSE /\ hd.response.isError
               /\ hd.response.text = "Error: " \o hd.error
    /\ (hd.pc = "returned" /\ hd.name \notin ToolNames) =>
          hd.response = [isError |-> TRUE, text |-> "Error: Unknown tool: " \o hd.name]

\* a call of a tool the server does not have was answered with the error
C23_Witness ==
    /\ hd.pc = "returned"
    /\ hd.name = "jira_create_ticket"
    /\ hd.response.isError
    /\ hd.response.text = "Error: Unknown tool: jira_create_ticket"

---------------------------------------------------------------------------
(* A jira_transition call that could not reach its target *)

\* C39: a jira_transition call with targetStatus that answers "Could not
\* transition to ..." has executed no transition on the ticket: the ticket is
\* in the status it had before the call.
C39_FailedTransitionUnchanged ==
    (tr.pc = "return" /\ tr.args.targetStatus # "" /\ tr.answer.kind = "couldNot") =>
        Executed = <<>>

---------------------------------------------------------------------------
(* The design stage of getTicket without design credentials *)

\* the design references of the text pool of the run
PoolDesignUrls ==
    {u \in {tk.allUrls[i] : i \in 1..Len(tk.allUrls)} : u.figma}
        \cup {tk.allText[i].url : i \in {j \in 1..Len(tk.allText) :
                                          /\ tk.allText[j].t = "url"
                                          /\ UrlPatternMatches(tk.allText[j].url)}}

\* C31: when getTicket runs with design fetching enabled and no design
\* credentials are configured, the report lists each design reference of the
\* text pool with the not-configured error; none is dropped silently.
C31_NotConfiguredReported ==
    (tk.pc = "return" /\ tk.fetchFigma /\ ~figmaConfig) =>
        \A u \in PoolDesignUrls :
            \E i \in 1..Len(tk.output) :
                /\ tk.output[i][1] = "figmaError"
                /\ tk.output[i][2] = u
                /\ tk.output[i][3].code = "NotConfigured"

---------------------------------------------------------------------------
(* The text pool of a run of getTicket *)

\* the decoded text and the collected URLs of a document are in the pool
DocInPool(doc) ==
    /\ \A i \in 1..Len(doc.text) : \E j \in 1..Len(tk.allText) : tk.allText[j] = doc.text[i]
    /\ \A i \in 1..Len(doc.urls) : \E j \in 1..Len(tk.allUrls) : tk.allUrls[j] = doc.urls[i]

\* the description and every comment of an issue are in the pool
IssueInPool(issue) ==
    /\ DocInPool(issue.description)
    /\ \A i \in 1..Len(issue.comments) : DocInPool(issue.comments[i])

\* the keys of the tickets whose full view a stage has put in the report
ViewedIn(part) ==
    {tk.output[i][2] : i \in {j \in 1..Len(tk.output) : tk.output[j][1] = part}}

\* C32: the pool scanned for ticket keys and design references holds the
\* decoded text and the collected URLs of every earlier full-view stage: the
\* primary description and comments, the parent description and comments, the
\* description and comments of every fetched linked item and, at the design
\* stage, of every fetched referenced ticket.
C32_PoolComplete ==
    tk.pc = "return" =>
        /\ IssueInPool(tk.fields)
        /\ \A k \in ViewedIn("parentDetails") : IssueInPool(jira[k])
        /\ \A k \in ViewedIn("linkedDetails") : IssueInPool(jira[k])
        /\ \A k \in ViewedIn("referencedDetails") : IssueInPool(jira[k])

---------------------------------------------------------------------------
(* The blocks of a comment *)

\* the blocks of a text and the lines of a block that are not blank
TextBlocks(text) == SelectSeq(SplitAt(text, 2), LAMBDA b : NonSpace(b) # <<>>)
BlockLines(block) == SelectSeq(SplitAt(block, 1), LAMBDA l : NonSpace(l) # <<>>)

StartsWithMarker(line) == Len(line) >= 2 /\ line[1] = "-" /\ line[2] = " "

LineFeeds(str) == Len(SelectSeq(str, LAMBDA c : c = "\n"))

\* C33: a block of the text of buildCommentADF becomes a bulletList node if and
\* only if every non-empty line of the block starts with the marker "- ", each
\* list item then holding the remainder of its line; every other non-empty
\* block becomes exactly one paragraph node in which each single line feed is
\* one hardBreak node.
C33_BlockClassification ==
    (Returned("buildCommentADF") /\ NonSpace(fcall.arg) # <<>>) =>
        LET blocks == TextBlocks(fcall.arg)
            res == fcall.res
        IN /\ Len(res) = Len(blocks)
           /\ \A b \in 1..Len(blocks) :
                 LET lines == BlockLines(blocks[b])
                 IN IF \A i \in 1..Len(lines) : StartsWithMarker(lines[i])
                    THEN /\ res[b].type = "bulletList"
                         /\ Len(res[b].content) = Len(lines)
                         /\ \A i \in 1..Len(lines) :
                               Trim(res[b].content[i].content[1].content[1].text)
                                  = Trim(SubSeq(lines[i], 3, Len(lines[i])))
                    ELSE /\ res[b].type = "paragraph"
                         /\ Len(SelectSeq(res[b].content, LAMBDA n : n.type = "hardBreak"))
                               = LineFeeds(Trim(blocks[b]))

---------------------------------------------------------------------------
(* searchUser, its cache, and the mentions of parseInlineFormatting:
   lines 186-269 *)

MaxMentionLen == 4
MaxRuns == 2

IsUpperCase(c) == c \in UpperCase
IsLetter(c) == c \in AlnumDash \ ({"-"} \cup {Digits[d] : d \in 1..10})

\* str.toLowerCase(), for the letters of the texts below
ToLowerCase(str) ==
    [i \in 1..Len(str) |-> CASE str[i] = "A" -> "a" [] str[i] = "B" -> "b" [] OTHER -> str[i]]

\* the first position from `from` on where the pattern of line 228 matches in a
\* text without "`" and "*": an "@" followed by a capital; 0 when there is none
MatchFrom(text, from) ==
    LET hits == {i \in from..(Len(text) - 1) : text[i] = "@" /\ IsUpperCase(text[i + 1])}
    IN IF hits = {} THEN 0 ELSE CHOOSE i \in hits : \A j \in hits : i <= j

\* the end of [A-Z][a-zA-Z]*(?:\s[A-Z][a-zA-Z]*)* matched greedily from the
\* capital at position i
RECURSIVE NameEnd(_, _)
NameEnd(text, i) ==
    LET rest == {j \in i..Len(text) : \A k \in (i + 1)..j : IsLetter(text[k])}
        e == CHOOSE j \in rest : \A k \in rest : k <= j
    IN IF e + 2 <= Len(text) /\ IsSpace(text[e + 1]) /\ IsUpperCase(text[e + 2])
       THEN NameEnd(text, e + 2)
       ELSE e

NoUser == [accountId |-> "", displayName |-> <<>>]
User(accountId, displayName) == [accountId |-> accountId, displayName |-> displayName]

\* { type: "mention", attrs: { id, text: `@${user.displayName}` } }
MentionNode(user) ==
    [id |-> user.accountId] @@ Node("mention", <<"@">> \o user.displayName, <<>>, "", <<>>)

\* match[0] of a mention match; match[5] is the name without the "@"
TokenTextNameOnly(text, start, end) == SubSeq(text, start + 1, end)
TokenText(text, start, end) == SubSeq(text, start, end)

\* a run of parseInlineFormatting(text)
NewRun(text) ==
    [pc |-> "scan",            \* "scan", "lookup" (searchUser awaits fetchJira), "done"
     text |-> text,
     lastIndex |-> 1,          \* lastIndex, counted from 1
     nodes |-> <<>>,
     start |-> 0, end |-> 0,   \* the match being handled
     query |-> <<>>,           \* the argument of searchUser
     user |-> NoUser]          \* what the last search of the backend gave searchUser

StartsWith(str, prefix) ==
    Len(prefix) <= Len(str) /\ SubSeq(str, 1, Len(prefix)) = prefix

\* lines 200-209: the exact match, else the first that starts with the query,
\* else the first user
BestMatch(users, query) ==
    LET q == ToLowerCase(query)
        exactMatch == Find(users, LAMBDA u : ToLowerCase(u.displayName) = q)
        startsWithMatch == Find(users, LAMBDA u : StartsWith(ToLowerCase(u.displayName), q))
        user == IF exactMatch # <<>> THEN exactMatch
                ELSE IF startsWithMatch # <<>> THEN startsWithMatch
                ELSE users[1]
    IN User(user.accountId, user.displayName)

\* userCache.set(cacheKey, result)
CacheSet(cache, key, result) ==
    [k \in DOMAIN cache \cup {key} |-> IF k = key THEN result ELSE cache[k]]

\* the while loop of lines 233-262 from lastIndex on, until searchUser has to
\* ask the backend or the text is over (lines 264-268); a query that is in the
\* cache is answered at once (lines 191-194)
RECURSIVE Scan(_, _)
Scan(r, cache) ==
    LET i == MatchFrom(r.text, r.lastIndex) IN
    IF i = 0
    THEN LET tail == IF r.lastIndex <= Len(r.text)
                     THEN <<TextNode(SubSeq(r.text, r.lastIndex, Len(r.text)))>>
                     ELSE <<>>
             nodes == r.nodes \o tail
         IN [r EXCEPT !.pc = "done",
                      !.nodes = IF Len(nodes) > 0 THEN nodes ELSE <<TextNode(r.text)>>]
    ELSE LET e == NameEnd(r.text, i + 1)
             before == IF i > r.lastIndex
                       THEN <<TextNode(SubSeq(r.text, r.lastIndex, i - 1))>>
                       ELSE <<>>
             name == Trim(SubSeq(r.text, i + 1, e))
             key == ToLowerCase(name)
         IN IF key \in DOMAIN cache
            THEN Scan([r EXCEPT !.nodes = @ \o before \o <<MentionNode(cache[key])>>,
                                !.start = i, !.end = e, !.query = name,
                                !.lastIndex = e + 1], cache)
            ELSE [r EXCEPT !.pc = "lookup", !.nodes = @ \o before,
                           !.start = i, !.end = e, !.query = name]

\* searchUser has returned `user` (NoUser for null): lines 250-259, and on
AfterLookup(r, user, cache) ==
    Scan([r EXCEPT !.nodes = Append(@, IF user # NoUser THEN MentionNode(user)
                                       ELSE TextNode(TokenText(r.text, r.start, r.end))),
                   !.user = user,
                   !.lastIndex = r.end + 1], cache)

\* the texts of the first tool call, and those of the others
MentionTexts(n) ==
    IF n = 1 THEN UNION {[1..k -> {"@", "A", "a", " "}] : k \in 0..MaxMentionLen}
    ELSE {<<"@", "A">>, <<"@", "A", "a">>, <<"@", "A", "A">>}

\* the users the directory may list for a search
UserAa == User("1", <<"A", "a">>)
UserA == User("2", <<"A">>)
UserAaa == User("3", <<"A", "a", "a">>)
SearchAnswers == {<<UserAa>>, <<UserAaa, UserAa>>, <<UserA>>, <<UserAaa>>}

MentionFrame ==
    UNCHANGED <<remote, retryVars, diskVars, figmaVars, ticketVars, fcall, up, tr, hd>>

\* a tool call reaches parseInlineFormatting(text)
MentionCall ==
    /\ Len(mn.runs) < MaxRuns
    /\ \E text \in MentionTexts(Len(mn.runs) + 1) :
          mn' = [mn EXCEPT !.runs = Append(@, Scan(NewRun(text), mn.cache))]
    /\ MentionFrame

\* the search lists users: lines 199-217
MentionLookupFinds ==
    /\ \E p \in 1..Len(mn.runs), users \in SearchAnswers :
          /\ mn.runs[p].pc = "lookup"
          /\ LET result == BestMatch(users, mn.runs[p].query)
                 cache == CacheSet(mn.cache, ToLowerCase(mn.runs[p].query), result)
             IN mn' = [mn EXCEPT !.cache = cache,
                                 !.runs[p] = AfterLookup(mn.runs[p], result, cache)]
    /\ MentionFrame

\* the search lists no user (line 199 is false), or fetchJira throws and the
\* catch of lines 218-220 takes it: line 221 returns null
MentionLookupNone ==
    /\ \E p \in 1..Len(mn.runs) :
          /\ mn.runs[p].pc = "lookup"
          /\ mn' = [mn EXCEPT !.runs[p] = AfterLookup(mn.runs[p], NoUser, mn.cache)]
    /\ MentionFrame

InitMention ==
    /\ remote = [responses |-> {}, nodeBodies |-> {}]
    /\ RetryIdle
    /\ DiskFresh
    /\ FigmaIdle
    /\ TicketIdle
    /\ ToolIdle

NextMention ==
    \/ MentionCall
    \/ MentionLookupFinds
    \/ MentionLookupNone

SpecMention == InitMention /\ [][NextMention]_vars

\* the runs in which a search of the backend has just returned
JustLookedUp(p) ==
    /\ p <= Len(mn.runs)
    /\ mn.runs[p].pc = "lookup"
    /\ mn'.runs[p] # mn.runs[p]

\* C34: for every @Name token of the text, when the user lookup gives no
\* candidate or fails the run goes on without error and emits a text node whose
\* text is exactly the token; a mention node is emitted only when the lookup
\* returned a user.
C34_MentionFallback ==
    [][\A p \in 1..Len(mn'.runs) :
          JustLookedUp(p) =>
              LET r == mn.runs[p]
                  q == mn'.runs[p]
                  node == q.nodes[Len(r.nodes) + 1]
                  token == SubSeq(r.text, r.start, r.end)
              IN /\ q.pc \in {"lookup", "done"}
                 /\ token[1] = "@" /\ Len(token) >= 2
                 /\ q.user = NoUser => node = TextNode(token)
                 /\ node.type = "mention" =>
                       /\ q.user # NoUser
                       /\ node.id = q.user.accountId
                 /\ \A i \in (Len(r.nodes) + 1)..Len(q.nodes) :
                       q.nodes[i].type = "mention" => q.nodes[i].id # ""]_vars

\* "a@A" with no user found for A: the text a, then the text @A
C34_Witness ==
    \E p \in 1..Len(mn.runs) :
        /\ mn.runs[p].pc = "done"
        /\ mn.runs[p].text = <<"a", "@", "A">>
        /\ mn.runs[p].user = NoUser
        /\ mn.runs[p].nodes = <<TextNode(<<"a">>), TextNode(<<"@", "A">>)>>

DirectoryUsers == {UserAa, UserA, UserAaa}

\* C35: for a mention node that refers to a user with display name N, as
\* parseInlineFormatting builds it, extractText emits exactly "@" followed by N.
C35_MentionDecoding ==
    \A p \in 1..Len(mn.runs) :
        \A i \in 1..Len(mn.runs[p].nodes) :
            LET node == mn.runs[p].nodes[i] IN
            node.type = "mention" =>
                \E u \in DirectoryUsers :
                    /\ u.accountId = node.id
                    /\ ExtractNodes(<<node>>, 1, [text |-> <<>>, urls |-> <<>>]).text
                          = <<"@">> \o u.displayName

\* C36: userCache is append-only under every interleaving of searchUser calls:
\* a cached value is never replaced or removed, a lookup of a cached query asks
\* the backend nothing, and a lookup that found no user adds nothing.
C36_CacheAppendOnly ==
    [][/\ \A k \in DOMAIN mn.cache :
             k \in DOMAIN mn'.cache /\ mn'.cache[k] = mn.cache[k]
       /\ \A p \in 1..Len(mn'.runs) :
             /\ (mn'.runs[p].pc = "lookup" /\ (p > Len(mn.runs) \/ mn'.runs[p] # mn.runs[p]))
                   => ToLowerCase(mn'.runs[p].query) \notin DOMAIN mn'.cache
             /\ (JustLookedUp(p) /\ mn'.runs[p].user = NoUser) => mn'.cache = mn.cache]_vars

---------------------------------------------------------------------------
(* The attachment cache and the flags of jira_get_ticket *)

IsAttachmentCall(c) == c[1] = "attachment"

\* how often a call occurs in a sequence of calls
Count(calls, c) == Len(SelectSeq(calls, LAMBDA x : x = c))

\* C37: after downloadAttachment has succeeded once for an issue key and a file
\* name, every later call for them returns the same local path without a
\* remote request and without changing the file; a failed download writes no
\* file, so that the next call for that attachment downloads again.
C37_AttachmentCache ==
    [][/\ \A f \in {"f.png", "d.pdf"} :
             LET c == AttachmentCall(f)
                 path == AttachmentPath(tk'.issueKey, f)
             IN /\ Count(tk'.calls, c) <= Count(tk'.failures, c) + 1
                /\ Count(tk'.calls, c) > Count(tk.calls, c) => path \notin attachFiles
                /\ (Count(tk'.calls, c) > Count(tk'.failures, c) /\ tk'.pc # "attachment")
                      => path \in attachFiles'
                /\ \A i \in 1..Len(tk'.output) :
                      (tk'.output[i][1] = "local" /\ tk'.output[i][2] = path)
                          => path \in attachFiles'
       /\ attachFiles \subseteq attachFiles'
       /\ Len(tk'.failures) > Len(tk.failures) => attachFiles' = attachFiles
       /\ attachFiles' # attachFiles =>
             /\ tk.pc = "attachment"
             /\ attachFiles' = attachFiles
                   \cup {AttachmentPath(tk.issueKey, tk.fields.attachment[tk.idx].filename)}]_vars

\* two image attachments of the same name: the first was downloaded, the second
\* got the same local path without a request
C37_Witness ==
    /\ tk.pc = "return"
    /\ Len(tk.fields.attachment) = 2
    /\ tk.fields.attachment[1] = tk.fields.attachment[2]
    /\ Count(tk.calls, AttachmentCall("f.png")) = 1
    /\ tk.failures = <<>>
    /\ tk.downloaded = <<AttachmentPath(tk.issueKey, "f.png"), AttachmentPath(tk.issueKey, "f.png")>>

\* C38: a getTicket run with fetchFigma false issues no design-backend request
\* and writes no export file; a run with downloadImages false issues no
\* attachment download and writes no attachment file; an attachment download is
\* issued only for an image attachment; an omitted flag behaves as true.
C38_FlagsGateStages ==
    [][/\ tk'.pc # "idle" =>
             /\ tk'.args.downloadImages = "omitted" => tk'.downloadImages
             /\ tk'.args.fetchFigma = "omitted" => tk'.fetchFigma
             /\ tk'.args.downloadImages = "true" => tk'.downloadImages
             /\ tk'.args.fetchFigma = "true" => tk'.fetchFigma
       /\ tk'.args.fetchFigma = "false" =>
             /\ \A i \in 1..Len(tk'.calls) : tk'.calls[i][1] # "figma"
             /\ pcF' = "idle" /\ pcR' = "idle"
             /\ fCalls' = <<>> /\ fWrites' = <<>>
             /\ UNCHANGED diskVars
       /\ tk'.args.downloadImages = "false" =>
             /\ \A i \in 1..Len(tk'.calls) : ~IsAttachmentCall(tk'.calls[i])
             /\ attachFiles' = attachFiles
       /\ \A i \in 1..Len(tk'.calls) :
             IsAttachmentCall(tk'.calls[i]) =>
                 \E a \in 1..Len(tk'.fields.attachment) :
                     /\ tk'.fields.attachment[a].filename = tk'.calls[i][2]
                     /\ tk'.fields.attachment[a].isImage]_vars

\* both flags omitted, a document and an image attached: the image was
\* downloaded, the document was not
C38_Witness ==
    /\ tk.pc = "return"
    /\ tk.args = [downloadImages |-> "omitted", fetchFigma |-> "omitted"]
    /\ Len(tk.fields.attachment) = 2
    /\ ~tk.fields.attachment[1].isImage
    /\ SelectSeq(tk.calls, IsAttachmentCall) = <<AttachmentCall("f.png")>>
    /\ Len(tk.downloaded) = 1

=============================================================================
